---- MODULE Spec2Model ----
(***************************************************************************)
(* Model of pytest_mh.conn: Process, ProcessResult, ProcessError and the   *)
(* high-level Connection API (src/pytest_mh/conn/__init__.py).             *)
(*                                                                         *)
(* Strings are sequences of one-character strings, so that the string      *)
(* operations of the code (lower, strip, dedent, join) are computed and    *)
(* not assumed.  An optional value (None or a value) is a sequence of      *)
(* length 0 or 1.                                                          *)
(***************************************************************************)
EXTENDS Integers, Sequences, FiniteSets, TLC

VARIABLES
    environ,    \* os.environ["MH_CONNECTION_DEBUG"]: None or Some(string)
    genid,      \* Process._genid: the next value itertools.count() yields
    procs,      \* every Process constructed so far, in order of construction
    connected,  \* Connection.connected
    log,        \* observable events in program order: calls, logger records, returns
    last,       \* outcome of the most recent API call
    steps,      \* number of API calls made so far
    pending     \* per thread: the Process.__init__ that has drawn its id and not yet returned

vars == <<environ, genid, procs, connected, log, last, steps, pending>>

----------------------------------------------------------------------------
\* Bounds of the model.

\* API calls per behaviour
MaxSteps == 3
\* Process instances per behaviour
MaxProcs == 1
\* threads constructing processes concurrently (SpecThreads)
NumThreads == 2
\* processes constructed per behaviour of SpecThreads
MaxCreations == 3
\* API calls per behaviour of SpecDebug
DebugSteps == 1
\* calls of throw() on one result (SpecResult)
MaxThrows == 2
\* API calls per behaviour of SpecCalls
CallSteps == 2
\* API calls per behaviour of SpecStream
StreamSteps == 4
\* processes and API calls per behaviour of SpecMixed
MixedProcs == 2
MixedSteps == 3

----------------------------------------------------------------------------
\* Optional values and strings.

None == <<>>
Some(x) == <<x>>
IsNone(o) == Len(o) = 0
Get(o) == o[1]

NL == "\n"
TAB == "\t"

UpperLetters ==
    <<"A","B","C","D","E","F","G","H","I","J","K","L","M",
      "N","O","P","Q","R","S","T","U","V","W","X","Y","Z">>
LowerLetters ==
    <<"a","b","c","d","e","f","g","h","i","j","k","l","m",
      "n","o","p","q","r","s","t","u","v","w","x","y","z">>

\* str.lower() on one character
LowerChar(ch) ==
    IF \E i \in 1..Len(UpperLetters) : UpperLetters[i] = ch
    THEN LowerLetters[CHOOSE i \in 1..Len(UpperLetters) : UpperLetters[i] = ch]
    ELSE ch

\* str.lower()
Lower(s) == [i \in 1..Len(s) |-> LowerChar(s[i])]

\* characters str.strip() removes
IsSpace(ch) == ch \in {" ", NL, TAB}

RECURSIVE LStrip(_)
LStrip(s) == IF s # <<>> /\ IsSpace(Head(s)) THEN LStrip(Tail(s)) ELSE s

RECURSIVE RStrip(_)
RStrip(s) ==
    IF s # <<>> /\ IsSpace(s[Len(s)]) THEN RStrip(SubSeq(s, 1, Len(s) - 1)) ELSE s

\* str.strip()
Strip(s) == RStrip(LStrip(s))

\* sep.join(lines)
RECURSIVE Join(_, _)
Join(sep, lines) ==
    IF lines = <<>> THEN <<>>
    ELSE IF Len(lines) = 1 THEN lines[1]
    ELSE lines[1] \o sep \o Join(sep, Tail(lines))

\* str.split("\n"): the lines of a text, without their line ends
RECURSIVE SplitLines(_)
SplitLines(s) ==
    IF \E i \in 1..Len(s) : s[i] = NL
    THEN LET i == CHOOSE j \in 1..Len(s) :
                      s[j] = NL /\ \A k \in 1..(j - 1) : s[k] # NL
         IN  <<SubSeq(s, 1, i - 1)>> \o SplitLines(SubSeq(s, i + 1, Len(s)))
    ELSE <<s>>

\* leading blanks and tabs of a line
RECURSIVE Indent(_)
Indent(line) ==
    IF line # <<>> /\ Head(line) \in {" ", TAB}
    THEN <<Head(line)>> \o Indent(Tail(line))
    ELSE <<>>

\* longest common prefix of two strings
RECURSIVE CommonPrefix(_, _)
CommonPrefix(a, b) ==
    IF a # <<>> /\ b # <<>> /\ Head(a) = Head(b)
    THEN <<Head(a)>> \o CommonPrefix(Tail(a), Tail(b))
    ELSE <<>>

RECURSIVE Margin(_)
Margin(indents) ==
    IF indents = <<>> THEN <<>>
    ELSE IF Len(indents) = 1 THEN indents[1]
    ELSE CommonPrefix(indents[1], Margin(Tail(indents)))

\* textwrap.dedent, first pass: a line of blanks and tabs only becomes empty
BlankLines(raw) ==
    [i \in 1..Len(raw) |-> IF Indent(raw[i]) = raw[i] THEN <<>> ELSE raw[i]]

\* textwrap.dedent: the indentation of every line that is not empty
Indents(lines) ==
    [i \in 1..Len(SelectSeq(lines, LAMBDA l : l # <<>>)) |->
        Indent(SelectSeq(lines, LAMBDA l : l # <<>>)[i])]

\* textwrap.dedent, second pass: the margin is cut from every line
CutMargin(lines, margin) ==
    [i \in 1..Len(lines) |->
        IF lines[i] = <<>> THEN <<>>
        ELSE SubSeq(lines[i], Len(margin) + 1, Len(lines[i]))]

DedentLines(lines) == Join(<<NL>>, CutMargin(lines, Margin(Indents(lines))))

\* textwrap.dedent(): lines of blanks only become empty, then the leading
\* whitespace common to all other lines is removed from each of them
Dedent(s) == DedentLines(BlankLines(SplitLines(s)))

----------------------------------------------------------------------------
\* Python values an argument may be, and the standard functions applied to
\* them.

\* a value and its type: a str (v its characters), an int, a list (v its
\* elements)
PyStr(s) == [t |-> "str", v |-> s]
PyInt(n) == [t |-> "int", v |-> n]
PyList(l) == [t |-> "list", v |-> l]

\* isinstance(x, t)
IsInstance(x, t) == x.t = t

DigitChars == <<"0","1","2","3","4","5","6","7","8","9">>

\* the decimal digits of a natural number
RECURSIVE Digits(_)
Digits(n) ==
    IF n < 10 THEN <<DigitChars[n + 1]>>
    ELSE Digits(n \div 10) \o <<DigitChars[(n % 10) + 1]>>

\* str(x), for a string or an integer
Str(x) ==
    IF x.t = "str" THEN x.v
    ELSE IF x.v < 0 THEN <<"-">> \o Digits(0 - x.v)
    ELSE Digits(x.v)

\* s.replace(old, new), old being one character
RECURSIVE Replace(_, _, _)
Replace(s, old, new) ==
    IF s = <<>> THEN <<>>
    ELSE (IF Head(s) = old THEN new ELSE <<Head(s)>>) \o Replace(Tail(s), old, new)

\* shlex: the characters that need no quoting, [\w@%+=:,./-] (ASCII)
ShlexSafeChars ==
    {UpperLetters[i] : i \in 1..Len(UpperLetters)}
    \cup {LowerLetters[i] : i \in 1..Len(LowerLetters)}
    \cup {DigitChars[i] : i \in 1..Len(DigitChars)}
    \cup {"_", "@", "%", "+", "=", ":", ",", ".", "/", "-"}

\* the replacement of a single quote inside single quotes: '"'"'
QuoteEscape == <<"'", "\"", "'", "\"", "'">>

\* ShlexQuote leaving the single quotes of the string as they are
ShlexQuoteUnescaped(s) ==
    IF s = <<>> THEN <<"'", "'">>
    ELSE IF \A i \in 1..Len(s) : s[i] \in ShlexSafeChars THEN s
    ELSE <<"'">> \o s \o <<"'">>

\* shlex.quote(s)
ShlexQuote(s) ==
    IF s = <<>> THEN <<"'", "'">>
    ELSE IF \A i \in 1..Len(s) : s[i] \in ShlexSafeChars THEN s
    ELSE <<"'">> \o Replace(s, "'", QuoteEscape) \o <<"'">>

\* shlex.join(argv)
ShlexJoin(argv) == Join(<<" ">>, [i \in 1..Len(argv) |-> ShlexQuote(argv[i])])

----------------------------------------------------------------------------
\* Values of the program.

\* ProcessLogLevel
Silent == "Silent"
Short == "Short"
Full == "Full"
Error == "Error"
ProcessLogLevel == {Silent, Short, Full, Error}

\* Bash(): Shell("bash", "/usr/bin/bash -c")
Bash ==
    [name |-> "bash",
     shell_command |-> <<"/","u","s","r","/","b","i","n","/","b","a","s","h"," ","-","c">>]

\* Powershell(): Shell("powershell", "powershell -NonInteractive -Command")
Powershell ==
    [name |-> "powershell",
     shell_command |->
        <<"p","o","w","e","r","s","h","e","l","l"," ","-","N","o","n","I","n","t","e","r","a","c","t","i","v","e"," ","-","C","o","m","m","a","n","d">>]

\* Bash._add_cwd_and_env: one export statement for each item of env
RECURSIVE BashExports(_)
BashExports(env) ==
    IF env = <<>> THEN <<>>
    ELSE <<"e","x","p","o","r","t"," ">> \o env[1][1] \o <<"=">> \o ShlexQuote(Str(env[1][2])) \o <<NL>>
         \o BashExports(Tail(env))

\* Bash._add_cwd_and_env and Powershell._add_cwd_and_env: the cd statement
ChangeDirectory(cwd) ==
    IF IsNone(cwd) THEN <<>>
    ELSE <<"c","d"," ">> \o ShlexQuote(Get(cwd)) \o <<NL>>

\* WithScript putting the script before the statements
WithScriptFirst(out, script) == (IF out # <<>> THEN script \o <<NL>> ELSE script) \o out

\* _add_cwd_and_env: the statements, an empty line if there are any, the script
WithScript(out, script) == (IF out # <<>> THEN out \o <<NL>> ELSE out) \o script

\* Bash._add_cwd_and_env
BashAddCwdAndEnv(script, cwd, env) ==
    WithScript(BashExports(env) \o ChangeDirectory(cwd), script)

\* Bash._escape_single_quotes
BashEscapeSingleQuotes(command) == Replace(command, "'", QuoteEscape)

\* launcher 'escaped_script'
Launch(shell, escaped_script) ==
    shell.shell_command \o <<" ", "'">> \o escaped_script \o <<"'">>

\* Bash.build_command_line
BashBuildCommandLine(script, cwd, env) ==
    Launch(Bash, BashEscapeSingleQuotes(BashAddCwdAndEnv(script, cwd, env)))

\* Powershell._add_cwd_and_env: one assignment for each item of env
RECURSIVE PowershellAssignments(_)
PowershellAssignments(env) ==
    IF env = <<>> THEN <<>>
    ELSE <<"$","E","n","v",":">> \o env[1][1] \o <<" ", "=", " ">>
         \o ShlexQuote(Str(env[1][2])) \o <<NL>>
         \o PowershellAssignments(Tail(env))

\* Powershell._add_cwd_and_env
PowershellAddCwdAndEnv(script, cwd, env) ==
    WithScript(PowershellAssignments(env) \o ChangeDirectory(cwd), script)

\* Powershell._escape_quotes: single quotes are doubled and double quotes are
\* escaped with a backslash
PowershellEscapeQuotes(command) ==
    Replace(Replace(command, "'", <<"'", "'">>), "\"", <<"\\", "\"">>)

\* Powershell.build_command_line
PowershellBuildCommandLine(script, cwd, env) ==
    Launch(Powershell, PowershellEscapeQuotes(PowershellAddCwdAndEnv(script, cwd, env)))

\* shell._add_cwd_and_env(script, cwd=cwd, env=env)
AddCwdAndEnv(shell, script, cwd, env) ==
    IF shell.name = "bash" THEN BashAddCwdAndEnv(script, cwd, env)
    ELSE PowershellAddCwdAndEnv(script, cwd, env)

\* shell.build_command_line(script, cwd=cwd, env=env)
BuildCommandLine(shell, script, cwd, env) ==
    IF shell.name = "bash" THEN BashBuildCommandLine(script, cwd, env)
    ELSE PowershellBuildCommandLine(script, cwd, env)

\* the shell the connection under test was constructed with
ConnShell == Bash

\* the values of MH_CONNECTION_DEBUG, lowered, that switch debugging on
DebugTruthy ==
    {<<"t","r","u","e">>, <<"y","e","s">>, <<"1">>}

\* os.getenv(name, default)
GetEnv(env, default) == IF IsNone(env) THEN default ELSE Get(env)

\* EffectiveLogLevel comparing the value as it is, without lower()
EffectiveLogLevelCaseSensitive(log_level, env) ==
    IF GetEnv(env, <<"n","o">>) \in DebugTruthy THEN Full ELSE log_level

\* Process.__init__: the log level a process ends up with, given the
\* requested one and the value of os.environ.get("MH_CONNECTION_DEBUG")
EffectiveLogLevel(log_level, env) ==
    LET debug == GetEnv(env, <<"n","o">>)
    IN  IF Lower(debug) \in DebugTruthy THEN Full ELSE log_level

\* GenIdAfter with the counter left where it was
GenIdAfterStuck(g) == g

\* next(itertools.count()): the value drawn, and the counter afterwards
GenIdValue(g) == g
GenIdAfter(g) == g + 1

\* Process.__init__; chan is the state of the transport handle of the
\* process and stdin that of its standard input, requested and debug record the arguments the level was derived from
ProcessInit(g, command, cwd, env, input, shell, log_level, blocking_call, osenv) ==
    [id |-> GenIdValue(g) + 1,
     command |-> Strip(Dedent(command)),
     cwd |-> cwd,
     env |-> IF IsNone(env) THEN <<>> ELSE Get(env),
     input |-> input,
     shell |-> shell,
     log_level |-> EffectiveLogLevel(log_level, osenv),
     blocking_call |-> blocking_call,
     additional_log_data |-> <<>>,
     full_command_line |->
        BuildCommandLine(shell, Strip(Dedent(command)), cwd,
                         IF IsNone(env) THEN <<>> ELSE Get(env)),
     chan |-> "created",
     stdin |-> "open",
     requested |-> log_level,
     debug |-> osenv]

\* ProcessError.__init__
ProcessError(id, command, rc, cwd, env, input, stdout, stderr) ==
    [id |-> id, command |-> command, rc |-> rc, cwd |-> cwd, env |-> env,
     input |-> input,
     stdout |-> Join(<<NL>>, stdout), stderr |-> Join(<<NL>>, stderr),
     stdout_lines |-> stdout, stderr_lines |-> stderr]

\* ProcessResult.__init__ joining the lines with a blank
ProcessResultJoinedByBlank(rc, stdout, stderr, error) ==
    [rc |-> rc,
     stdout |-> Join(<<" ">>, stdout), stderr |-> Join(<<" ">>, stderr),
     stdout_lines |-> stdout, stderr_lines |-> stderr,
     error |-> error]

\* ProcessResult.__init__
ProcessResult(rc, stdout, stderr, error) ==
    [rc |-> rc,
     stdout |-> Join(<<NL>>, stdout), stderr |-> Join(<<NL>>, stderr),
     stdout_lines |-> stdout, stderr_lines |-> stderr,
     error |-> error]

----------------------------------------------------------------------------
\* Inputs.

CmdEcho == <<" ", " ", "e","c","h","o"," ","h","i", NL>>
CmdExit == <<NL, " ", "e","c","h","o"," ","a", NL, " ", "e","x","i","t"," ","3", NL>>
CmdCat == <<"c","a","t">>

\* the invocations a caller makes: command, cwd, env and input
Invocations ==
    {[command |-> CmdEcho, cwd |-> None, env |-> None, input |-> None],
     [command |-> CmdExit, cwd |-> Some(<<"/","t">>),
      env |-> Some(<< << <<"X">>, PyStr(<<"1">>) >> >>), input |-> Some(<<"i","n">>)]}

\* what the remote end does with the command it is sent: return code and
\* output lines
Remote(command) ==
    IF command = <<"e","c","h","o"," ","h","i">>
    THEN [rc |-> 0, stdout |-> << <<"h","i">> >>, stderr |-> <<>>]
    ELSE IF command = CmdCat
    THEN [rc |-> 0, stdout |-> <<>>, stderr |-> <<>>]
    ELSE [rc |-> 3, stdout |-> << <<"a">> >>, stderr |-> << <<"e","1">>, <<"e","2">> >>]

\* values of MH_CONNECTION_DEBUG the caller's environment takes
DebugValues ==
    {None,
     Some(<<"t","r","u","e">>), Some(<<"T","R","U","E">>), Some(<<"T","r","u","e">>),
     Some(<<"t","R","u","E">>),
     Some(<<"y","e","s">>), Some(<<"Y","E","S">>), Some(<<"Y","e","s">>),
     Some(<<"1">>),
     Some(<<"n","o">>), Some(<<"0">>), Some(<<>>), Some(<<"o","n">>),
     Some(<<"t","r","u","e","e">>), Some(<<" ","y","e","s">>), Some(<<"y">>),
     Some(<<"1","1">>), Some(<<"f","a","l","s","e">>)}

----------------------------------------------------------------------------
\* Events of the log.

NoData == <<>>
NoRc == 0 - 1

CallEv(op, id, flag, lvl) ==
    [k |-> "call", op |-> op, id |-> id, flag |-> flag, lvl |-> lvl,
     msg |-> "", rc |-> NoRc, data |-> NoData]

RetEv(op, id, outcome, rc) ==
    [k |-> "ret", op |-> op, id |-> id, flag |-> FALSE, lvl |-> "",
     msg |-> outcome, rc |-> rc, data |-> NoData]

\* logger.info(msg, extra={"data": data}) and logger.error(...)
LogEv(level, msg, id, rc, data) ==
    [k |-> "log", op |-> level, id |-> id, flag |-> FALSE, lvl |-> "",
     msg |-> msg, rc |-> rc, data |-> data]

\* Process.__msg_execution: "Executing command #id"
MsgExecution(p) == [msg |-> "Executing command", id |-> p.id, rc |-> NoRc]
\* Process.__msg_completed_sync: "Previous command completed with exit code rc"
MsgCompletedSync(p, rc) == [msg |-> "Previous command completed", id |-> 0, rc |-> rc]
\* Process.__msg_completed_async: "Command #id completed with exit code rc"
MsgCompletedAsync(p, rc) == [msg |-> "Command completed", id |-> p.id, rc |-> rc]

Record(level, m, data) == LogEv(level, m.msg, m.id, m.rc, data)

\* the execution context attached to a record
ContextData(p) ==
    ("Shell" :> p.shell.shell_command) @@ ("Command" :> p.command)
    @@ ("Input" :> p.input) @@ ("Working directory" :> p.cwd)
    @@ ("Extra environment" :> p.env) @@ p.additional_log_data

OutputData(result) ==
    ("Output" :> result.stdout) @@ ("Error output" :> result.stderr)

ContextKeys == {"Shell", "Command", "Input", "Working directory", "Extra environment"}
OutputKeys == {"Output", "Error output"}

----------------------------------------------------------------------------
\* Process.

\* Process.in_progress: the process is started and running
InProgress(p) == p.chan = "running"

\* Process._run: the transport starts the command
TransportRun(p) == [p EXCEPT !.chan = "running"]

\* the transport closes the standard input of the process (EOF)
CloseStdin(p) == [p EXCEPT !.stdin = "closed"]

\* TransportWaitBegin leaving the standard input as it is
TransportWaitBeginKeepingStdin(p) == [p EXCEPT !.chan = "waiting"]

\* Process._wait, first part: EOF is sent to the standard input if it is
\* still open, then the caller waits for the command to finish
TransportWaitBegin(p) == [CloseStdin(p) EXCEPT !.chan = "waiting"]

\* whether the remote command reads its standard input to the end before it
\* exits, as cat does
ReadsStdin(command) == command = CmdCat

\* the remote command of a started process finishes: at once, or once its
\* standard input is closed if it reads it to the end
Exits(p) == ~ReadsStdin(p.command) \/ p.stdin = "closed"

\* Process._wait, given what the remote end returned: the standard input is
\* closed, the process is completed and the result is built, with the error
\* it may raise later
TransportResult(p, out) ==
    [proc |-> [CloseStdin(p) EXCEPT !.chan = "completed"],
     result |-> ProcessResult(out.rc, out.stdout, out.stderr,
                    Some(ProcessError(p.id, p.command, out.rc, p.cwd, p.env,
                                      p.input, out.stdout, out.stderr)))]

\* Process._wait
TransportWait(p) == TransportResult(p, Remote(p.command))

\* RunRecords logging at every level
RunRecordsAnyLevel(p) ==
    <<Record("info", MsgExecution(p), ContextData(p))>>

\* RunRecords logging at level Full only
RunRecordsFullOnly(p) ==
    IF p.log_level = Full
    THEN <<Record("info", MsgExecution(p), ContextData(p))>>
    ELSE <<>>

\* Process.run: the record logged before the command is started
RunRecords(p) ==
    IF p.log_level \in {Short, Full}
    THEN <<Record("info", MsgExecution(p), ContextData(p))>>
    ELSE <<>>

\* RunEvents with the command dispatched before the record is logged
RunEventsDispatchFirst(p) ==
    <<CallEv("Process.run", p.id, FALSE, "")>>
    \o <<CallEv("_run", p.id, FALSE, "")>>
    \o RunRecords(p)
    \o <<RetEv("Process.run", p.id, "return", NoRc)>>

\* Process.run: the events of one call, in program order
RunEvents(p) ==
    <<CallEv("Process.run", p.id, FALSE, "")>>
    \o RunRecords(p)
    \o <<CallEv("_run", p.id, FALSE, "")>>
    \o <<RetEv("Process.run", p.id, "return", NoRc)>>

\* ProcessRun reading MH_CONNECTION_DEBUG again
ProcessRunSamplingAgain(p) ==
    [proc |-> TransportRun([p EXCEPT !.log_level =
                                EffectiveLogLevel(p.requested, environ)]),
     events |-> RunEvents([p EXCEPT !.log_level =
                              EffectiveLogLevel(p.requested, environ)])]

\* Process.run
ProcessRun(p) == [proc |-> TransportRun(p), events |-> RunEvents(p)]

\* WaitRejected with the guard left out
WaitRejectedNever(p) == FALSE

\* Process.wait: the guard on a process that is not running
WaitRejected(p) == ~InProgress(p)

\* WaitErrorRecords logging every failure, whatever the log level
WaitErrorRecordsAnyLevel(p, result) ==
    IF result.rc # 0
    THEN <<Record("error", MsgCompletedAsync(p, result.rc),
                  ContextData(p) @@ OutputData(result))>>
    ELSE <<>>

\* Process.wait: the error record
WaitErrorRecords(p, result) ==
    IF p.log_level = Error /\ result.rc # 0
    THEN <<Record("error", MsgCompletedAsync(p, result.rc),
                  ContextData(p) @@ OutputData(result))>>
    ELSE <<>>

\* WaitInfoRecords logging the non-blocking form in both modes
WaitInfoRecordsNoMode(p, result) ==
    CASE p.log_level = Short ->
            <<Record("info", MsgCompletedAsync(p, result.rc), ContextData(p))>>
      [] p.log_level = Full ->
            <<Record("info", MsgCompletedAsync(p, result.rc),
                     ContextData(p) @@ OutputData(result))>>
      [] OTHER -> <<>>

\* WaitInfoRecords logging the completion at level Error as well
WaitInfoRecordsAtError(p, result) ==
    IF p.log_level \in {Short, Full, Error}
    THEN <<Record("info",
                  IF p.blocking_call THEN MsgCompletedSync(p, result.rc)
                  ELSE MsgCompletedAsync(p, result.rc),
                  NoData)>>
    ELSE <<>>

\* Process.wait: the informational record
WaitInfoRecords(p, result) ==
    IF p.blocking_call
    THEN CASE p.log_level = Short ->
                <<Record("info", MsgCompletedSync(p, result.rc), NoData)>>
           [] p.log_level = Full ->
                <<Record("info", MsgCompletedSync(p, result.rc), OutputData(result))>>
           [] OTHER -> <<>>
    ELSE CASE p.log_level = Short ->
                <<Record("info", MsgCompletedAsync(p, result.rc), ContextData(p))>>
           [] p.log_level = Full ->
                <<Record("info", MsgCompletedAsync(p, result.rc),
                         ContextData(p) @@ OutputData(result))>>
           [] OTHER -> <<>>

\* WaitRaises ignoring raise_on_error
WaitRaisesAlways(raise_on_error, result) == result.rc # 0

\* Process.wait: whether the call ends by result.throw()
WaitRaises(raise_on_error, result) == raise_on_error /\ result.rc # 0

\* Throw refusing to raise the error of a command that exited 0
ThrowOnFailureOnly(result) ==
    IF IsNone(result.error) \/ result.rc = 0 THEN "ValueError" ELSE "ProcessError"

\* ProcessResult.throw: the exception raised
Throw(result) ==
    IF IsNone(result.error) THEN "ValueError" ELSE "ProcessError"

\* ResultThrow handing the error over: the result is left without it
ResultThrowConsuming(result) ==
    [outcome |-> Throw(result), raised |-> result.error,
     result |-> [result EXCEPT !.error = None]]

\* ProcessResult.throw: the exception raised, the ProcessError raised if it
\* is one, and the result after the call
ResultThrow(result) ==
    [outcome |-> Throw(result), raised |-> result.error, result |-> result]

\* the event of one call of throw(): the result before and after it, and
\* what it raised
ThrowEv(before, t) ==
    [k |-> "ret", op |-> "ProcessResult.throw", id |-> 0, flag |-> FALSE,
     lvl |-> "", msg |-> t.outcome, rc |-> before.rc,
     data |-> [before |-> before, after |-> t.result, raised |-> t.raised]]

\* Process.wait: how the call ends
WaitOutcome(raise_on_error, result) ==
    IF WaitRaises(raise_on_error, result) THEN Throw(result) ELSE "return"

\* Process.wait on a process that is not running
WaitRefused(p, raise_on_error) ==
    [proc |-> p,
     events |-> <<CallEv("Process.wait", p.id, raise_on_error, ""),
                  RetEv("Process.wait", p.id, "RuntimeError", NoRc)>>,
     outcome |-> "RuntimeError", result |-> None, error |-> None]

\* WaitCompleted raising before anything is logged
WaitCompletedRaisingFirst(p, raise_on_error, w) ==
    [proc |-> w.proc,
     events |-> <<CallEv("Process.wait", p.id, raise_on_error, ""),
                  CallEv("_wait", p.id, FALSE, "")>>
                \o (IF WaitRaises(raise_on_error, w.result) THEN <<>>
                    ELSE WaitErrorRecords(p, w.result) \o WaitInfoRecords(p, w.result))
                \o <<RetEv("Process.wait", p.id,
                           WaitOutcome(raise_on_error, w.result), w.result.rc)>>,
     outcome |-> WaitOutcome(raise_on_error, w.result),
     result |-> IF WaitRaises(raise_on_error, w.result) THEN None ELSE Some(w.result),
     error |-> IF WaitOutcome(raise_on_error, w.result) = "ProcessError"
               THEN w.result.error ELSE None]

\* Process.wait on a running process, w being what _wait returned: the events
\* of the call in program order, how it ends, the result returned or the
\* error raised
WaitCompleted(p, raise_on_error, w) ==
    [proc |-> w.proc,
     events |-> <<CallEv("Process.wait", p.id, raise_on_error, ""),
                  CallEv("_wait", p.id, FALSE, "")>>
                \o WaitErrorRecords(p, w.result)
                \o WaitInfoRecords(p, w.result)
                \o <<RetEv("Process.wait", p.id,
                           WaitOutcome(raise_on_error, w.result), w.result.rc)>>,
     outcome |-> WaitOutcome(raise_on_error, w.result),
     result |-> IF WaitRaises(raise_on_error, w.result) THEN None ELSE Some(w.result),
     error |-> IF WaitOutcome(raise_on_error, w.result) = "ProcessError"
               THEN w.result.error ELSE None]

\* Process.wait
ProcessWait(p, raise_on_error) ==
    IF WaitRejected(p)
    THEN WaitRefused(p, raise_on_error)
    ELSE WaitCompleted(p, raise_on_error, TransportWait(p))

\* StreamCall without the check that the process is running
StreamCallUnguarded(p, op, data, done) ==
    [proc |-> done,
     events |-> <<[CallEv(op, p.id, FALSE, "") EXCEPT !.data = data],
                  RetEv(op, p.id, "return", NoRc)>>,
     outcome |-> "return"]

\* Process.stdin, Process.send_eof and Process.send_signal: RuntimeError if
\* the process is not running, else the process is left as done
StreamCall(p, op, data, done) ==
    IF ~InProgress(p)
    THEN [proc |-> p,
          events |-> <<[CallEv(op, p.id, FALSE, "") EXCEPT !.data = data],
                       RetEv(op, p.id, "RuntimeError", NoRc)>>,
          outcome |-> "RuntimeError"]
    ELSE [proc |-> done,
          events |-> <<[CallEv(op, p.id, FALSE, "") EXCEPT !.data = data],
                       RetEv(op, p.id, "return", NoRc)>>,
          outcome |-> "return"]

\* process.stdin: the input buffer of a running process
ProcessStdin(p) == StreamCall(p, "Process.stdin", NoData, p)

\* process.send_eof()
ProcessSendEof(p) == StreamCall(p, "Process.send_eof", NoData, CloseStdin(p))

\* process.send_signal(sig): the signal is forwarded to the running command
ProcessSendSignal(p, sig) ==
    StreamCall(p, "Process.send_signal", [sig |-> sig], p)

\* Process.wait: the default of raise_on_error
WaitRaiseDefault == TRUE

\* Process.__enter__: return self
ProcessEnter(p) ==
    [proc |-> p,
     events |-> <<CallEv("Process.__enter__", p.id, FALSE, ""),
                  RetEv("Process.__enter__", p.id, "return", NoRc)>>]

\* Process.__exit__, w being its call of wait(): it ends as wait() ends
ProcessExited(p, exc_info, w) ==
    [proc |-> w.proc,
     events |-> <<[CallEv("Process.__exit__", p.id, FALSE, "") EXCEPT
                      !.data = [exc_info |-> exc_info]]>>
                \o w.events
                \o <<RetEv("Process.__exit__", p.id, w.outcome, NoRc)>>,
     outcome |-> w.outcome, error |-> w.error]

\* ProcessExit leaving the process alone when the body raised
ProcessExitUnlessRaised(p, exc_info) ==
    IF IsNone(exc_info)
    THEN ProcessExited(p, exc_info, ProcessWait(p, WaitRaiseDefault))
    ELSE [proc |-> p,
          events |-> <<[CallEv("Process.__exit__", p.id, FALSE, "") EXCEPT
                           !.data = [exc_info |-> exc_info]],
                       RetEv("Process.__exit__", p.id, "return", NoRc)>>,
          outcome |-> "return", error |-> None]

\* Process.__exit__(*exc_info): self.wait()
ProcessExit(p, exc_info) ==
    ProcessExited(p, exc_info, ProcessWait(p, WaitRaiseDefault))

----------------------------------------------------------------------------
\* Connection.

\* Connection.create_process: a new process, not yet started
NewProcess(g, inv, log_level, blocking_call, osenv) ==
    ProcessInit(g, inv.command, inv.cwd, inv.env, inv.input, ConnShell,
                log_level, blocking_call, osenv)

CreateEvents(p, log_level, blocking_call) ==
    <<CallEv("create_process", p.id, blocking_call, log_level)>>

\* Connection.run: the blocking flag it creates the process with
RunBlockingFlag == TRUE
\* AsyncRunBlockingFlag copied from Connection.run
AsyncRunBlockingFlagCopied == TRUE
\* Connection.async_run: the blocking flag it creates the process with
AsyncRunBlockingFlag == FALSE

Outcome(op, pid, outcome, result, error) ==
    [op |-> op, pid |-> pid, outcome |-> outcome, result |-> result, error |-> error]

\* ConnectionRunEvents running and waiting the command again when it failed
ConnectionRunEventsRetried(p, r, w, log_level, raise_on_error) ==
    <<CallEv("Connection.run", 0, raise_on_error, log_level),
      CallEv("connect", 0, FALSE, "")>>
    \o CreateEvents(p, log_level, RunBlockingFlag)
    \o r.events
    \o w.events
    \o (IF w.outcome = "return" /\ Get(w.result).rc = 0
        THEN <<>> ELSE r.events \o w.events)
    \o <<RetEv("Connection.run", p.id, w.outcome, NoRc)>>

\* Connection.run: the events of one call, in program order; p is the process
\* created, r its run() and w its wait()
ConnectionRunEvents(p, r, w, log_level, raise_on_error) ==
    <<CallEv("Connection.run", 0, raise_on_error, log_level),
      CallEv("connect", 0, FALSE, "")>>
    \o CreateEvents(p, log_level, RunBlockingFlag)
    \o r.events
    \o w.events
    \o <<RetEv("Connection.run", p.id, w.outcome, NoRc)>>

ConnectionRunWaited(p, r, w, log_level, raise_on_error) ==
    [proc |-> w.proc,
     events |-> ConnectionRunEvents(p, r, w, log_level, raise_on_error),
     outcome |-> w.outcome, result |-> w.result, error |-> w.error]

ConnectionRunStarted(p, r, log_level, raise_on_error) ==
    ConnectionRunWaited(p, r, ProcessWait(r.proc, raise_on_error),
                        log_level, raise_on_error)

ConnectionRunCreated(p, log_level, raise_on_error) ==
    ConnectionRunStarted(p, ProcessRun(p), log_level, raise_on_error)

\* Connection.run
ConnectionRun(g, inv, log_level, raise_on_error, osenv) ==
    ConnectionRunCreated(NewProcess(g, inv, log_level, RunBlockingFlag, osenv),
                         log_level, raise_on_error)

\* Connection.async_run: the events of one call, in program order
ConnectionAsyncRunEvents(p, r, log_level) ==
    <<CallEv("Connection.async_run", 0, FALSE, log_level),
      CallEv("connect", 0, FALSE, "")>>
    \o CreateEvents(p, log_level, AsyncRunBlockingFlag)
    \o r.events
    \o <<RetEv("Connection.async_run", p.id, "return", NoRc)>>

ConnectionAsyncRunStarted(p, r, log_level) ==
    [proc |-> r.proc, events |-> ConnectionAsyncRunEvents(p, r, log_level)]

ConnectionAsyncRunCreated(p, log_level) ==
    ConnectionAsyncRunStarted(p, ProcessRun(p), log_level)

\* Connection.async_run
ConnectionAsyncRun(g, inv, log_level, osenv) ==
    ConnectionAsyncRunCreated(
        NewProcess(g, inv, log_level, AsyncRunBlockingFlag, osenv), log_level)

----------------------------------------------------------------------------
\* Connection: the calls as the caller makes them, with arguments of any
\* type and arguments left out.

\* the value of an argument that may be left out
Default(arg, default) == IF IsNone(arg) THEN default ELSE Get(arg)

\* the message of the ValueError of each method
UsageMessage(op) ==
    CASE op = "Connection.run" ->
            "Parameter command is not a string, did you mean exec() instead of run()?"
      [] op = "Connection.async_run" ->
            "Parameter command is not a string, did you mean async_exec() instead of async_run()?"
      [] op = "Connection.exec" ->
            "Parameter argv is not a list, did you mean run() instead of exec()?"
      [] op = "Connection.async_exec" ->
            "Parameter argv is not a list, did you mean async_run() instead of async_exec()?"

\* Refused calling connect() before it raises
RefusedAfterConnect(op, flag, lvl) ==
    [created |-> FALSE, proc |-> None,
     events |-> <<CallEv(op, 0, flag, lvl), CallEv("connect", 0, FALSE, ""),
                  RetEv(op, 0, "ValueError", NoRc)>>,
     outcome |-> "ValueError", result |-> None,
     error |-> Some([message |-> UsageMessage(op)])]

\* raise ValueError(...), the first statement of a call of op
Refused(op, flag, lvl) ==
    [created |-> FALSE, proc |-> None,
     events |-> <<CallEv(op, 0, flag, lvl), RetEv(op, 0, "ValueError", NoRc)>>,
     outcome |-> "ValueError", result |-> None,
     error |-> Some([message |-> UsageMessage(op)])]

\* a method that does its work by calling another one, c being that call
Wrapped(op, flag, lvl, data, c) ==
    [c EXCEPT !.events =
        <<[CallEv(op, 0, flag, lvl) EXCEPT !.data = data]>>
        \o c.events
        \o <<RetEv(op, IF c.created THEN c.proc.id ELSE 0, c.outcome, NoRc)>>]

\* Connection.run(command, input=, log_level=, raise_on_error=), cwd and env
\* left out
RunCall(g, command, input, log_level, raise_on_error, osenv) ==
    IF ~IsInstance(command, "str")
    THEN Refused("Connection.run", raise_on_error, log_level)
    ELSE [created |-> TRUE]
         @@ ConnectionRun(g, [command |-> command.v, cwd |-> None, env |-> None,
                              input |-> input],
                          log_level, raise_on_error, osenv)

\* Connection.async_run(command, input=, log_level=)
AsyncRunCall(g, command, input, log_level, osenv) ==
    IF ~IsInstance(command, "str")
    THEN Refused("Connection.async_run", FALSE, log_level)
    ELSE [created |-> TRUE, outcome |-> "return", result |-> None, error |-> None]
         @@ ConnectionAsyncRun(g, [command |-> command.v, cwd |-> None,
                                   env |-> None, input |-> input],
                               log_level, osenv)

\* argv = [str(x) for x in argv]
Stringified(argv) == [i \in 1..Len(argv) |-> Str(argv[i])]

\* Connection.exec(argv, input=, log_level=, raise_on_error=)
ExecCall(g, argv, input, log_level, raise_on_error, osenv) ==
    IF ~IsInstance(argv, "list")
    THEN Refused("Connection.exec", raise_on_error, log_level)
    ELSE Wrapped("Connection.exec", raise_on_error, log_level, [argv |-> argv.v],
                 RunCall(g, PyStr(ShlexJoin(Stringified(argv.v))), input, log_level,
                         raise_on_error, osenv))

\* Connection.async_exec(argv, input=, log_level=)
AsyncExecCall(g, argv, input, log_level, osenv) ==
    IF ~IsInstance(argv, "list")
    THEN Refused("Connection.async_exec", FALSE, log_level)
    ELSE Wrapped("Connection.async_exec", FALSE, log_level, [argv |-> argv.v],
                 AsyncRunCall(g, PyStr(ShlexJoin(Stringified(argv.v))), input,
                              log_level, osenv))

\* ExpectRaiseDefault with the default of run() and exec()
ExpectRaiseDefaultOfRun == TRUE
\* expect() and expect_nobody(): the default of raise_on_error
ExpectRaiseDefault == FALSE

\* Connection.expect: args = ["-d"] if verbose else []
ExpectArgv(verbose) ==
    PyList(<<PyStr(<<"/","b","i","n","/","e","x","p","e","c","t">>)>>
           \o (IF verbose THEN <<PyStr(<<"-","d">>)>> ELSE <<>>))

\* Connection.expect_nobody: the command, args = " -d" if verbose else ""
ExpectNobodyCommand(verbose) ==
    PyStr(<<"s","u"," ","-","-","s","h","e","l","l"," ","/","b","i","n","/","s","h"," ","n","o","b","o","d","y"," ","-","c"," ","\"","/","b","i","n","/","e","x","p","e","c","t">>
          \o (IF verbose THEN <<" ","-","d">> ELSE <<>>) \o <<"\"">>)

\* Connection.expect(expect_script, verbose=, raise_on_error=), log_level of
\* exec() being left to its default; given is the raise_on_error argument as
\* the caller passed it or left it out
ExpectCall(g, expect_script, verbose, raise_on_error, given, osenv) ==
    Wrapped("Connection.expect", raise_on_error, "", [given |-> given],
            ExecCall(g, ExpectArgv(verbose), Some(expect_script), Full,
                     raise_on_error, osenv))

\* Connection.expect_nobody(expect_script, verbose=, raise_on_error=)
ExpectNobodyCall(g, expect_script, verbose, raise_on_error, given, osenv) ==
    Wrapped("Connection.expect_nobody", raise_on_error, "", [given |-> given],
            RunCall(g, ExpectNobodyCommand(verbose), Some(expect_script), Full,
                    raise_on_error, osenv))

\* the calls that are in progress when ev[k] is called return one after the
\* other, innermost first, with the error ev[k] raised
Unwound(ev, k, error) ==
    <<RetEv(ev[k].op, 0, error, NoRc)>>
    \o [n \in 1..(k - 1) |-> RetEv(ev[k - n].op, 0, error, NoRc)]

\* the place of the first call of op in ev
FirstCall(ev, op) ==
    CHOOSE k \in 1..Len(ev) :
        /\ ev[k].k = "call" /\ ev[k].op = op
        /\ \A j \in 1..(k - 1) : ~(ev[j].k = "call" /\ ev[j].op = op)

\* ConnectRaises with the connection tried only when the process is created
ConnectRaisesAfterCreate(c) ==
    [created |-> TRUE, proc |-> [c.proc EXCEPT !.chan = "created"],
     events |-> SubSeq(c.events, 1, FirstCall(c.events, "create_process"))
                \o Unwound(c.events, FirstCall(c.events, "connect"), "ConnectionError"),
     outcome |-> "ConnectionError", result |-> None,
     error |-> Some([message |-> "ConnectionError"])]

\* the call c when its connect() cannot reach the host: c runs up to
\* self.connect(), which raises ConnectionError, and the error leaves every
\* method that is in progress
ConnectRaises(c) ==
    [created |-> FALSE, proc |-> None,
     events |-> SubSeq(c.events, 1, FirstCall(c.events, "connect"))
                \o Unwound(c.events, FirstCall(c.events, "connect"), "ConnectionError"),
     outcome |-> "ConnectionError", result |-> None,
     error |-> Some([message |-> "ConnectionError"])]

----------------------------------------------------------------------------
\* State machine.

Threads == 1..NumThreads

Init ==
    /\ environ = None
    /\ genid = 0
    /\ procs = <<>>
    /\ connected = FALSE
    /\ log = <<>>
    /\ last = Outcome("", 0, "", None, None)
    /\ steps = 0
    /\ pending = [t \in Threads |-> None]

\* a new process p joins the pool, and the call that made it ends
Created(p, events, op, outcome, result, error) ==
    /\ genid' = GenIdAfter(genid)
    /\ procs' = Append(procs, p)
    /\ log' = log \o events
    /\ last' = Outcome(op, Len(procs) + 1, outcome, result, error)
    /\ steps' = steps + 1
    /\ UNCHANGED <<environ, pending>>

\* a call on process i ends
Called(i, p, events, op, outcome, result, error) ==
    /\ procs' = [procs EXCEPT ![i] = p]
    /\ log' = log \o events
    /\ last' = Outcome(op, i, outcome, result, error)
    /\ steps' = steps + 1
    /\ UNCHANGED <<environ, genid, connected, pending>>

CreateProcessDone(p, log_level, blocking_call) ==
    Created(p, CreateEvents(p, log_level, blocking_call), "create_process",
            "return", None, None)

\* conn.create_process(command=..., log_level=..., blocking_call=...)
CreateProcess(inv, log_level, blocking_call) ==
    /\ steps < MaxSteps
    /\ Len(procs) < MaxProcs
    /\ CreateProcessDone(NewProcess(genid, inv, log_level, blocking_call, environ),
                         log_level, blocking_call)
    /\ UNCHANGED connected

ProcRunDone(i, r) ==
    Called(i, r.proc, r.events, "Process.run", "return", None, None)

\* process.run()
ProcRun(i) ==
    /\ steps < MaxSteps
    /\ i \in 1..Len(procs)
    /\ ProcRunDone(i, ProcessRun(procs[i]))

ProcWaitDone(i, w) ==
    Called(i, w.proc, w.events, "Process.wait", w.outcome, w.result, w.error)

\* process.wait(raise_on_error)
ProcWait(i, raise_on_error) ==
    /\ steps < MaxSteps
    /\ i \in 1..Len(procs)
    /\ ProcWaitDone(i, ProcessWait(procs[i], raise_on_error))

ConnRunDone(c) ==
    Created(c.proc, c.events, "Connection.run", c.outcome, c.result, c.error)

\* conn.run(command, cwd=, env=, input=, log_level=, raise_on_error=)
ConnRun(inv, log_level, raise_on_error) ==
    /\ steps < MaxSteps
    /\ Len(procs) < MaxProcs
    /\ ConnRunDone(ConnectionRun(genid, inv, log_level, raise_on_error, environ))
    /\ connected' = TRUE

ConnAsyncRunDone(c) ==
    Created(c.proc, c.events, "Connection.async_run", "return", None, None)

\* conn.async_run(command, cwd=, env=, input=, log_level=)
ConnAsyncRun(inv, log_level) ==
    /\ steps < MaxSteps
    /\ Len(procs) < MaxProcs
    /\ ConnAsyncRunDone(ConnectionAsyncRun(genid, inv, log_level, environ))
    /\ connected' = TRUE

Next ==
    \/ \E inv \in Invocations, l \in ProcessLogLevel, b \in BOOLEAN :
           CreateProcess(inv, l, b)
    \/ \E i \in 1..MaxProcs : ProcRun(i)
    \/ \E i \in 1..MaxProcs, b \in BOOLEAN : ProcWait(i, b)
    \/ \E inv \in Invocations, l \in ProcessLogLevel, b \in BOOLEAN :
           ConnRun(inv, l, b)
    \/ \E inv \in Invocations, l \in ProcessLogLevel : ConnAsyncRun(inv, l)

Spec == Init /\ [][Next]_vars

----------------------------------------------------------------------------
\* Processes created under every value of the debug variable.

\* the program is started with any value of MH_CONNECTION_DEBUG
InitDebug ==
    /\ environ \in DebugValues
    /\ genid = 0
    /\ procs = <<>>
    /\ connected = FALSE
    /\ log = <<>>
    /\ last = Outcome("", 0, "", None, None)
    /\ steps = 0
    /\ pending = [t \in Threads |-> None]

NextDebug ==
    \/ \E inv \in Invocations, l \in ProcessLogLevel, b \in BOOLEAN :
           steps < DebugSteps /\ CreateProcess(inv, l, b)
    \/ \E inv \in Invocations, l \in ProcessLogLevel, b \in BOOLEAN :
           steps < DebugSteps /\ ConnRun(inv, l, b)
    \/ \E inv \in Invocations, l \in ProcessLogLevel :
           steps < DebugSteps /\ ConnAsyncRun(inv, l)

SpecDebug == InitDebug /\ [][NextDebug]_vars

----------------------------------------------------------------------------
\* Processes constructed by several threads.  Process.__init__ draws its id
\* first (next() on the shared itertools.count, one indivisible step under
\* the interpreter lock) and builds the rest of the object afterwards, so
\* another thread may draw an id in between.

\* thread t enters Process.__init__ and draws the id
InitBegin(t, inv) ==
    /\ genid < MaxCreations
    /\ IsNone(pending[t])
    /\ pending' = [pending EXCEPT ![t] = Some([g |-> GenIdValue(genid), inv |-> inv])]
    /\ genid' = GenIdAfter(genid)
    /\ log' = Append(log, CallEv("Process.__init__", GenIdValue(genid) + 1, FALSE, Full))
    /\ UNCHANGED <<environ, procs, connected, last, steps>>

\* thread t leaves Process.__init__ with the process built
InitEnd(t) ==
    /\ ~IsNone(pending[t])
    /\ procs' = Append(procs, NewProcess(Get(pending[t]).g, Get(pending[t]).inv,
                                         Full, FALSE, environ))
    /\ pending' = [pending EXCEPT ![t] = None]
    /\ UNCHANGED <<environ, genid, connected, log, last, steps>>

NextThreads ==
    \/ \E t \in Threads, inv \in Invocations : InitBegin(t, inv)
    \/ \E t \in Threads : InitEnd(t)

SpecThreads == Init /\ [][NextThreads]_vars

----------------------------------------------------------------------------
\* Results and throw().  A result is built by the constructor, from any
\* return code, output and error or none, or returned by Connection.run();
\* the caller then calls throw() on it, any number of times.

\* the output lines ProcessResult is constructed with
OutputLines ==
    {<<>>,
     << <<"a">> >>,
     << <<"a">>, <<"b","c">> >>,
     << <<>>, <<"a">>, <<>> >>,
     << <<"a"," ","b">>, <<"c">>, <<"d">> >>}

ResultErrors(rc, stdout, stderr) ==
    {None,
     Some(ProcessError(1, <<"x">>, rc, None, <<>>, None, stdout, stderr))}

\* ProcessResult(rc, stdout, stderr, error)
ResultNew(rc, stdout, stderr, error) ==
    /\ last.op = ""
    /\ last' = Outcome("ProcessResult", 0, "return",
                       Some(ProcessResult(rc, stdout, stderr, error)), None)
    /\ log' = Append(log, CallEv("ProcessResult", 0, FALSE, ""))
    /\ steps' = steps + 1
    /\ UNCHANGED <<environ, genid, procs, connected, pending>>

\* result = conn.run(...)
ResultOfRun(inv, log_level, raise_on_error) ==
    /\ last.op = ""
    /\ ConnRun(inv, log_level, raise_on_error)

\* result.throw()
ResultThrowCall ==
    /\ ~IsNone(last.result)
    /\ Len(SelectSeq(log, LAMBDA e : e.op = "ProcessResult.throw")) < MaxThrows
    /\ last' = Outcome("ProcessResult.throw", last.pid,
                       ResultThrow(Get(last.result)).outcome,
                       Some(ResultThrow(Get(last.result)).result),
                       ResultThrow(Get(last.result)).raised)
    /\ log' = Append(log, ThrowEv(Get(last.result), ResultThrow(Get(last.result))))
    /\ steps' = steps + 1
    /\ UNCHANGED <<environ, genid, procs, connected, pending>>

NextResult ==
    \/ \E rc \in {0, 1, 3}, out \in OutputLines, err \in OutputLines :
           \E error \in ResultErrors(rc, out, err) : ResultNew(rc, out, err, error)
    \/ \E inv \in Invocations, l \in ProcessLogLevel, b \in BOOLEAN :
           ResultOfRun(inv, l, b)
    \/ ResultThrowCall

SpecResult == Init /\ [][NextResult]_vars

----------------------------------------------------------------------------
\* The calls of the Connection API with arguments of any type.

\* what callers pass as command
CallCommands ==
    {PyStr(CmdEcho), PyStr(CmdExit), PyList(<<PyStr(<<"l","s">>)>>), PyInt(7)}

\* what callers pass as argv
CallArgvs ==
    {PyList(<<>>),
     PyList(<<PyStr(<<"e","c","h","o">>), PyStr(<<"h","i">>)>>),
     PyList(<<PyStr(<<"e","c","h","o">>), PyStr(<<"a"," ","b">>)>>),
     PyList(<<PyStr(<<"e","c","h","o">>), PyStr(<<"i","t","'","s">>)>>),
     PyList(<<PyStr(<<"p">>), PyStr(<<"a","\"","b">>), PyStr(<<"$","x">>)>>),
     PyList(<<PyStr(<<"p">>), PyInt(42), PyStr(<<>>), PyInt(0 - 7)>>),
     PyList(<<PyStr(<<"p">>), PyStr(<<"a",NL," ",NL,"b">>)>>),
     PyStr(<<"l","s">>),
     PyInt(7)}

ExpectScript == <<"s","p","a","w","n"," ","x",NL>>

\* the call c of op ends: it raised before doing anything, or a process was
\* created
Rejected(c, op) ==
    /\ log' = log \o c.events
    /\ last' = Outcome(op, 0, c.outcome, c.result, c.error)
    /\ steps' = steps + 1
    /\ UNCHANGED <<environ, genid, procs, connected, pending>>

Call(c, op) ==
    /\ steps < CallSteps
    /\ c.created => Len(procs) < MaxProcs
    /\ IF c.created
       THEN /\ Created(c.proc, c.events, op, c.outcome, c.result, c.error)
            /\ connected' = TRUE
       ELSE Rejected(c, op)

\* conn.run(command, raise_on_error=), log_level left to its default
CallRun(command, raise_on_error) ==
    Call(RunCall(genid, command, None, Full, raise_on_error, environ),
         "Connection.run")

\* conn.async_run(command)
CallAsyncRun(command) ==
    Call(AsyncRunCall(genid, command, None, Full, environ),
         "Connection.async_run")

\* conn.exec(argv, raise_on_error=)
CallExec(argv, raise_on_error) ==
    Call(ExecCall(genid, argv, None, Full, raise_on_error, environ),
         "Connection.exec")

\* conn.async_exec(argv)
CallAsyncExec(argv) ==
    Call(AsyncExecCall(genid, argv, None, Full, environ),
         "Connection.async_exec")

\* conn.expect(script, verbose=, raise_on_error=), each of the two given or not
CallExpect(verbose, raise_on_error) ==
    Call(ExpectCall(genid, ExpectScript, Default(verbose, TRUE),
                    Default(raise_on_error, ExpectRaiseDefault), raise_on_error,
                    environ),
         "Connection.expect")

\* conn.expect_nobody(script, verbose=, raise_on_error=)
CallExpectNobody(verbose, raise_on_error) ==
    Call(ExpectNobodyCall(genid, ExpectScript, Default(verbose, TRUE),
                          Default(raise_on_error, ExpectRaiseDefault), raise_on_error,
                          environ),
         "Connection.expect_nobody")

NextCalls ==
    \/ \E command \in CallCommands, b \in BOOLEAN : CallRun(command, b)
    \/ \E command \in CallCommands : CallAsyncRun(command)
    \/ \E argv \in CallArgvs, b \in BOOLEAN : CallExec(argv, b)
    \/ \E argv \in CallArgvs : CallAsyncExec(argv)
    \/ \E v, r \in {None, Some(TRUE), Some(FALSE)} : CallExpect(v, r)
    \/ \E v, r \in {None, Some(TRUE), Some(FALSE)} : CallExpectNobody(v, r)

SpecCalls == Init /\ [][NextCalls]_vars

----------------------------------------------------------------------------
\* The calls of the Connection API to a host that can be reached or not:
\* connect() establishes the session, or raises ConnectionError; on a
\* connection that is established it does nothing.

\* what callers pass as command and as argv to a host that may be down
HostCommands == {PyStr(CmdExit), PyInt(7)}
HostArgvs ==
    {PyList(<<PyStr(<<"e","c","h","o">>), PyStr(<<"a"," ","b">>)>>), PyStr(<<"l","s">>)}

\* the call c of op, made while the host can be reached or not
CallOn(reach, c, op) ==
    Call(IF reach \/ connected \/ ~c.created THEN c ELSE ConnectRaises(c), op)

\* conn.run(command, raise_on_error=)
HostRun(reach, command, raise_on_error) ==
    CallOn(reach, RunCall(genid, command, None, Full, raise_on_error, environ),
           "Connection.run")

\* conn.async_run(command)
HostAsyncRun(reach, command) ==
    CallOn(reach, AsyncRunCall(genid, command, None, Full, environ),
           "Connection.async_run")

\* conn.exec(argv, raise_on_error=)
HostExec(reach, argv, raise_on_error) ==
    CallOn(reach, ExecCall(genid, argv, None, Full, raise_on_error, environ),
           "Connection.exec")

\* conn.async_exec(argv)
HostAsyncExec(reach, argv) ==
    CallOn(reach, AsyncExecCall(genid, argv, None, Full, environ),
           "Connection.async_exec")

\* conn.expect(script, raise_on_error=)
HostExpect(reach, raise_on_error) ==
    CallOn(reach, ExpectCall(genid, ExpectScript, TRUE,
                             Default(raise_on_error, ExpectRaiseDefault),
                             raise_on_error, environ),
           "Connection.expect")

\* conn.expect_nobody(script, raise_on_error=)
HostExpectNobody(reach, raise_on_error) ==
    CallOn(reach, ExpectNobodyCall(genid, ExpectScript, TRUE,
                                   Default(raise_on_error, ExpectRaiseDefault),
                                   raise_on_error, environ),
           "Connection.expect_nobody")

NextHost ==
    \/ \E reach, b \in BOOLEAN, command \in HostCommands : HostRun(reach, command, b)
    \/ \E reach \in BOOLEAN, command \in HostCommands : HostAsyncRun(reach, command)
    \/ \E reach, b \in BOOLEAN, argv \in HostArgvs : HostExec(reach, argv, b)
    \/ \E reach \in BOOLEAN, argv \in HostArgvs : HostAsyncExec(reach, argv)
    \/ \E reach \in BOOLEAN, r \in {None, Some(TRUE), Some(FALSE)} :
           HostExpect(reach, r)
    \/ \E reach \in BOOLEAN, r \in {None, Some(TRUE), Some(FALSE)} :
           HostExpectNobody(reach, r)

SpecHost == Init /\ [][NextHost]_vars

----------------------------------------------------------------------------
\* The connection as a context manager: "with conn: body".  The with
\* statement calls __enter__, runs the body and calls __exit__ when the body
\* ends or raises; the exception of the body is raised again after __exit__
\* unless __exit__ returned a true value.

\* ExitSuppresses returning a true value
ExitSuppressesAll == TRUE
\* Connection.__exit__: whether its return value (None) suppresses the exception
ExitSuppresses == FALSE

\* the body is running: __enter__ has returned, __exit__ is not called yet
\* and no statement of the body has raised
InBody ==
    /\ log # <<>>
    /\ \A i \in 1..Len(log) : log[i].op # "Connection.__exit__"
    /\ last.outcome = "return"

\* Connection.__enter__
ScopeEnter ==
    /\ log = <<>>
    /\ log' = <<CallEv("Connection.__enter__", 0, FALSE, ""),
                CallEv("connect", 0, FALSE, ""),
                RetEv("Connection.__enter__", 0, "return", NoRc)>>
    /\ connected' = TRUE
    /\ last' = Outcome("Connection.__enter__", 0, "return", None, None)
    /\ UNCHANGED <<environ, genid, procs, steps, pending>>

\* a statement of the body: conn.run(command, raise_on_error=)
ScopeRun(command, raise_on_error) == InBody /\ CallRun(command, raise_on_error)

\* a statement of the body: conn.exec(argv, raise_on_error=)
ScopeExec(argv, raise_on_error) == InBody /\ CallExec(argv, raise_on_error)

\* a statement of the body that raises an exception of its own
ScopeOther ==
    /\ InBody
    /\ steps < CallSteps
    /\ log' = log \o <<CallEv("statement", 0, FALSE, ""),
                       RetEv("statement", 0, "Exception", NoRc)>>
    /\ last' = Outcome("statement", 0, "Exception", None, None)
    /\ steps' = steps + 1
    /\ UNCHANGED <<environ, genid, procs, connected, pending>>

\* the body has ended or raised: Connection.__exit__(exception_type, ...) is
\* called, and the with statement ends
ScopeExit ==
    /\ log # <<>>
    /\ \A i \in 1..Len(log) : log[i].op # "Connection.__exit__"
    /\ log' = log \o
          <<[CallEv("Connection.__exit__", 0, FALSE, "") EXCEPT
                !.data = [exception_type |->
                             IF last.outcome = "return" THEN None
                             ELSE Some(last.outcome)]],
            CallEv("disconnect", 0, FALSE, ""),
            RetEv("Connection.__exit__", 0, "return", NoRc),
            RetEv("with", 0,
                  IF ExitSuppresses THEN "return" ELSE last.outcome, NoRc)>>
    /\ connected' = FALSE
    /\ last' = Outcome("with", last.pid,
                       IF ExitSuppresses THEN "return" ELSE last.outcome,
                       None,
                       IF ExitSuppresses THEN None ELSE last.error)
    /\ UNCHANGED <<environ, genid, procs, steps, pending>>

NextScope ==
    \/ ScopeEnter
    \/ \E command \in CallCommands, b \in BOOLEAN : ScopeRun(command, b)
    \/ \E argv \in CallArgvs, b \in BOOLEAN : ScopeExec(argv, b)
    \/ ScopeOther
    \/ ScopeExit

SpecScope == Init /\ [][NextScope]_vars

----------------------------------------------------------------------------
\* The command lines the two shells build, for scripts, directories and
\* environment values with blanks, quotes, newlines and shell syntax in them.

ShellInputs ==
    {[script |-> s, cwd |-> c, env |-> e] :
        s \in {<<"l","s">>,
               <<"e","c","h","o"," ","'","a","'",NL,"p","w","d">>,
               <<"e","c","h","o"," ","\"","$","X","\"">>},
        c \in {None,
               Some(<<"/","t","m","p">>),
               Some(<<"/","a"," ","b">>),
               Some(<<"i","t","'","s",NL,"\"","q","\"">>)},
        e \in {<<>>,
               << << <<"X">>, PyStr(<<"1">>) >> >>,
               << << <<"X">>, PyStr(<<"i","t","'","s">>) >>,
                  << <<"Y","Y">>, PyInt(0 - 12) >> >>,
               << << <<"X">>, PyStr(<<"a"," ","\"","b","\"",NL,"$","(","c",")">>) >> >>,
               << << <<"A">>, PyStr(<<>>) >>,
                  << <<"B">>, PyStr(<<"'",";","x","'","'">>) >> >>}}

\* shell.build_command_line(script, cwd=, env=): the arguments, the script
\* with the statements (full_script) and the command line returned
ShellBuild(shell, in) ==
    /\ last' = Outcome("build_command_line", 0, "return",
                       Some([shell |-> shell.name, script |-> in.script,
                             cwd |-> in.cwd, env |-> in.env,
                             full_script |->
                                AddCwdAndEnv(shell, in.script, in.cwd, in.env),
                             command_line |->
                                BuildCommandLine(shell, in.script, in.cwd, in.env)]),
                       None)
    /\ UNCHANGED <<environ, genid, procs, connected, log, steps, pending>>

NextShell == \E shell \in {Bash, Powershell}, in \in ShellInputs : ShellBuild(shell, in)

SpecShell == Init /\ [][NextShell]_vars

----------------------------------------------------------------------------
\* A process used through its streams: created and started by hand or by
\* async_run(), its stdin accessed and closed, signalled and waited.  wait()
\* is two steps here: the caller enters _wait, which closes the standard
\* input, and returns once the remote command has finished, which is the
\* remote end's step.

Signals == {"SIGTERM"}

StreamInvocations ==
    {[command |-> CmdCat, cwd |-> None, env |-> None, input |-> None],
     [command |-> CmdExit, cwd |-> None, env |-> None, input |-> None]}

\* the caller is not inside a call of wait()
Idle == \A n \in 1..Len(procs) : procs[n].chan # "waiting"

\* conn.create_process(command=..., log_level=Full, blocking_call=False)
StreamCreate(inv) ==
    /\ steps < StreamSteps
    /\ Idle
    /\ Len(procs) < MaxProcs
    /\ CreateProcessDone(NewProcess(genid, inv, Full, FALSE, environ), Full, FALSE)
    /\ UNCHANGED connected

\* conn.async_run(command, log_level=)
StreamAsyncRun(inv, log_level) ==
    /\ steps < StreamSteps
    /\ Idle
    /\ Len(procs) < MaxProcs
    /\ ConnAsyncRunDone(ConnectionAsyncRun(genid, inv, log_level, environ))
    /\ connected' = TRUE

\* process.run() on a process that was not started yet
StreamRun(i) ==
    /\ steps < StreamSteps
    /\ Idle
    /\ i \in 1..Len(procs)
    /\ procs[i].chan = "created"
    /\ ProcRunDone(i, ProcessRun(procs[i]))

\* a call c of a stream operation on process i ends
StreamDone(i, c, op) ==
    /\ steps < StreamSteps
    /\ Idle
    /\ Called(i, c.proc, c.events, op, c.outcome, None, None)

\* process.stdin
StreamStdin(i) ==
    /\ i \in 1..Len(procs)
    /\ StreamDone(i, ProcessStdin(procs[i]), "Process.stdin")

\* process.send_eof()
StreamSendEof(i) ==
    /\ i \in 1..Len(procs)
    /\ StreamDone(i, ProcessSendEof(procs[i]), "Process.send_eof")

\* process.send_signal(sig)
StreamSendSignal(i, sig) ==
    /\ i \in 1..Len(procs)
    /\ StreamDone(i, ProcessSendSignal(procs[i], sig), "Process.send_signal")

\* process.wait(raise_on_error) is called: it raises at once on a process
\* that is not running, else _wait is entered
WaitBegin(i, raise_on_error) ==
    /\ steps < StreamSteps
    /\ Idle
    /\ i \in 1..Len(procs)
    /\ IF WaitRejected(procs[i])
       THEN ProcWaitDone(i, WaitRefused(procs[i], raise_on_error))
       ELSE Called(i, TransportWaitBegin(procs[i]),
                   <<CallEv("Process.wait", procs[i].id, raise_on_error, ""),
                     CallEv("_wait", procs[i].id, FALSE, "")>>,
                   "Process.wait", "waiting", None, None)

\* the rest of wait(), w being the whole call
WaitEndDone(i, w) ==
    /\ procs' = [procs EXCEPT ![i] = w.proc]
    /\ log' = log \o SubSeq(w.events, 3, Len(w.events))
    /\ last' = Outcome("Process.wait", i, w.outcome, w.result, w.error)
    /\ UNCHANGED <<environ, genid, connected, steps, pending>>

\* the remote command has finished: _wait returns the result and wait()
\* logs, and returns or raises; raise_on_error is the argument of the call
\* that is in progress
WaitEnd(i) ==
    /\ i \in 1..Len(procs)
    /\ procs[i].chan = "waiting"
    /\ Exits(procs[i])
    /\ WaitEndDone(i, WaitCompleted(procs[i], log[Len(log) - 1].flag,
                                    TransportWait(procs[i])))

NextStream ==
    \/ \E inv \in StreamInvocations : StreamCreate(inv)
    \/ \E inv \in StreamInvocations : StreamAsyncRun(inv, Full)
    \/ \E i \in 1..MaxProcs : StreamRun(i)
    \/ \E i \in 1..MaxProcs : StreamStdin(i)
    \/ \E i \in 1..MaxProcs : StreamSendEof(i)
    \/ \E i \in 1..MaxProcs, sig \in Signals : StreamSendSignal(i, sig)
    \/ \E i \in 1..MaxProcs, b \in BOOLEAN : WaitBegin(i, b)
    \/ \E i \in 1..MaxProcs : WaitEnd(i)

\* the remote command keeps running until it finishes, so the step that
\* ends a wait() is taken once it can be
SpecStream ==
    Init /\ [][NextStream]_vars /\ WF_vars(\E i \in 1..MaxProcs : WaitEnd(i))

----------------------------------------------------------------------------
\* The process as a context manager: "with process: body", the process
\* coming from async_run() or from create_process() and run().  The with
\* statement calls __enter__, runs the body and calls __exit__ when the body
\* ends or raises; an exception __exit__ raises replaces that of the body.

\* the with statement was not entered yet
BeforeWith == \A j \in 1..Len(log) : log[j].op # "Process.__enter__"

\* the body is running: __enter__ has returned, __exit__ is not called yet
\* and no statement of the body has raised
InProcessBody ==
    /\ ~BeforeWith
    /\ \A j \in 1..Len(log) : log[j].op # "Process.__exit__"
    /\ last.outcome = "return"

\* conn.async_run(command, log_level=), before the with statement
WithAsyncRun(inv, log_level) == BeforeWith /\ ConnAsyncRun(inv, log_level)

\* conn.create_process(...), before the with statement
WithCreate(inv, log_level, blocking_call) ==
    BeforeWith /\ CreateProcess(inv, log_level, blocking_call)

\* process.run(), before the with statement
WithRun(i) == BeforeWith /\ ProcRun(i)

\* Process.__enter__
WithEnter(i) ==
    /\ BeforeWith
    /\ i \in 1..Len(procs)
    /\ procs' = [procs EXCEPT ![i] = ProcessEnter(procs[i]).proc]
    /\ log' = log \o ProcessEnter(procs[i]).events
    /\ last' = Outcome("Process.__enter__", i, "return", None, None)
    /\ UNCHANGED <<environ, genid, connected, steps, pending>>

\* a statement of the body: process.wait(raise_on_error)
WithBodyWait(i, raise_on_error) == InProcessBody /\ ProcWait(i, raise_on_error)

\* a statement of the body that raises an exception of its own
WithBodyRaise == InProcessBody /\ ScopeOther

\* the call x of __exit__ on process i ends, and the with statement ends
WithExitDone(i, x) ==
    /\ procs' = [procs EXCEPT ![i] = x.proc]
    /\ log' = log \o x.events
            \o <<RetEv("with", procs[i].id,
                       IF x.outcome = "return" THEN last.outcome ELSE x.outcome,
                       NoRc)>>
    /\ last' = Outcome("with", i,
                       IF x.outcome = "return" THEN last.outcome ELSE x.outcome,
                       None,
                       IF x.outcome = "return" THEN last.error ELSE x.error)
    /\ UNCHANGED <<environ, genid, connected, steps, pending>>

\* the body has ended or raised: Process.__exit__(*exc_info) is called
WithExit(i) ==
    /\ ~BeforeWith
    /\ \A j \in 1..Len(log) : log[j].op # "Process.__exit__"
    /\ i \in 1..Len(procs)
    /\ WithExitDone(i, ProcessExit(procs[i],
                                   IF last.outcome = "return" THEN None
                                   ELSE Some(last.outcome)))

NextWith ==
    \/ \E inv \in Invocations, l \in ProcessLogLevel : WithAsyncRun(inv, l)
    \/ \E inv \in Invocations, l \in ProcessLogLevel, b \in BOOLEAN :
           WithCreate(inv, l, b)
    \/ \E i \in 1..MaxProcs : WithRun(i)
    \/ \E i \in 1..MaxProcs : WithEnter(i)
    \/ \E i \in 1..MaxProcs, b \in BOOLEAN : WithBodyWait(i, b)
    \/ WithBodyRaise
    \/ \E i \in 1..MaxProcs : WithExit(i)

SpecWith == Init /\ [][NextWith]_vars

----------------------------------------------------------------------------
\* The caller changes MH_CONNECTION_DEBUG between the calls.

EnvValues == {None, Some(<<"y","e","s">>), Some(<<"n","o">>)}

\* the program is started with the variable unset, on or off
InitEnv ==
    /\ environ \in EnvValues
    /\ genid = 0
    /\ procs = <<>>
    /\ connected = FALSE
    /\ log = <<>>
    /\ last = Outcome("", 0, "", None, None)
    /\ steps = 0
    /\ pending = [t \in Threads |-> None]

\* os.environ["MH_CONNECTION_DEBUG"] = v, or del os.environ[...]
SetEnv(v) ==
    /\ steps < MaxSteps
    /\ environ # v
    /\ environ' = v
    /\ log' = Append(log, [CallEv("os.environ", 0, FALSE, "") EXCEPT
                              !.data = [value |-> v]])
    /\ steps' = steps + 1
    /\ UNCHANGED <<genid, procs, connected, last, pending>>

NextEnv ==
    \/ \E v \in EnvValues : SetEnv(v)
    \/ \E inv \in Invocations, l \in ProcessLogLevel, b \in BOOLEAN :
           CreateProcess(inv, l, b)
    \/ \E i \in 1..MaxProcs : ProcRun(i)
    \/ \E i \in 1..MaxProcs, b \in BOOLEAN : ProcWait(i, b)
    \/ \E inv \in Invocations, l \in ProcessLogLevel : ConnAsyncRun(inv, l)

SpecEnv == InitEnv /\ [][NextEnv]_vars

----------------------------------------------------------------------------
\* One caller mixing blocking and non-blocking calls: processes started by
\* async_run() keep running while run() and exec() are called, and are
\* waited later.

\* conn.run(command, log_level=, raise_on_error=False)
MixedRun(inv, log_level) ==
    /\ steps < MixedSteps
    /\ Len(procs) < MixedProcs
    /\ ConnRunDone(ConnectionRun(genid, inv, log_level, FALSE, environ))
    /\ connected' = TRUE

\* the call c of conn.exec() ends
MixedExecDone(c) ==
    Created(c.proc, c.events, "Connection.exec", c.outcome, c.result, c.error)

\* conn.exec(["echo", "hi"], log_level=, raise_on_error=False)
MixedExec(log_level) ==
    /\ steps < MixedSteps
    /\ Len(procs) < MixedProcs
    /\ MixedExecDone(ExecCall(genid,
                              PyList(<<PyStr(<<"e","c","h","o">>), PyStr(<<"h","i">>)>>),
                              None, log_level, FALSE, environ))
    /\ connected' = TRUE

\* conn.async_run(command, log_level=)
MixedAsyncRun(inv, log_level) ==
    /\ steps < MixedSteps
    /\ Len(procs) < MixedProcs
    /\ ConnAsyncRunDone(ConnectionAsyncRun(genid, inv, log_level, environ))
    /\ connected' = TRUE

\* process.wait(raise_on_error=False) on a process async_run() returned
MixedWait(i) ==
    /\ steps < MixedSteps
    /\ i \in 1..Len(procs)
    /\ ~procs[i].blocking_call
    /\ ProcWaitDone(i, ProcessWait(procs[i], FALSE))

NextMixed ==
    \/ \E inv \in Invocations, l \in ProcessLogLevel : MixedRun(inv, l)
    \/ \E l \in ProcessLogLevel : MixedExec(l)
    \/ \E inv \in Invocations, l \in ProcessLogLevel : MixedAsyncRun(inv, l)
    \/ \E i \in 1..MixedProcs : MixedWait(i)

SpecMixed == Init /\ [][NextMixed]_vars

----------------------------------------------------------------------------
\* Reading the log.

LogIdx == 1..Len(log)

IsCall(i, op) == log[i].k = "call" /\ log[i].op = op
IsRet(i, op) == log[i].k = "ret" /\ log[i].op = op

\* the calls of op
CallsOf(op) == {i \in LogIdx : IsCall(i, op)}

\* the return that ends the call at i
SpanEnd(i) ==
    CHOOSE j \in (i + 1)..Len(log) :
        /\ IsRet(j, log[i].op)
        /\ \A m \in (i + 1)..(j - 1) : ~IsRet(m, log[i].op)

\* the events between the call at i and its return
Inside(i) == (i + 1)..(SpanEnd(i) - 1)

\* the logger records made during the call at i, and those of one level
RecordsIn(i) == {j \in Inside(i) : log[j].k = "log"}
LevelRecordsIn(i, level) == {j \in RecordsIn(i) : log[j].op = level}

\* the calls made during the call at i, in order
CallOpsIn(i) ==
    LET inner == SelectSeq(SubSeq(log, i + 1, SpanEnd(i) - 1), LAMBDA e : e.k = "call")
    IN  [n \in 1..Len(inner) |-> inner[n].op]

\* the process with a given id
ProcOf(id) == procs[CHOOSE n \in 1..Len(procs) : procs[n].id = id]

\* the transport was asked to start process id before event i
StartedBefore(id, i) == \E j \in 1..(i - 1) : IsCall(j, "_run") /\ log[j].id = id
\* the transport completed process id before event i
CompletedBefore(id, i) == \E j \in 1..(i - 1) : IsCall(j, "_wait") /\ log[j].id = id

\* the calls of Process.wait that completed the process
CompletingWaits == {i \in CallsOf("Process.wait") : IsCall(i + 1, "_wait")}

\* what the remote end returned for process id
ReturnCode(id) == Remote(ProcOf(id).command).rc
Stdout(id) == Join(<<NL>>, Remote(ProcOf(id).command).stdout)
Stderr(id) == Join(<<NL>>, Remote(ProcOf(id).command).stderr)

\* record j carries the execution context of process p
HasContext(j, p) ==
    /\ ContextKeys \subseteq DOMAIN log[j].data
    /\ log[j].data["Shell"] = p.shell.shell_command
    /\ log[j].data["Command"] = p.command
    /\ log[j].data["Input"] = p.input
    /\ log[j].data["Working directory"] = p.cwd
    /\ log[j].data["Extra environment"] = p.env

\* record j carries the output of process id
HasOutput(j, id) ==
    /\ OutputKeys \subseteq DOMAIN log[j].data
    /\ log[j].data["Output"] = Stdout(id)
    /\ log[j].data["Error output"] = Stderr(id)

----------------------------------------------------------------------------
\* Claims.

\* C1: wait(raise_on_error) on a started process raises the error captured in
\* the result, whose rc is the return code of the process, if raise_on_error
\* is true and the return code is not zero; in every other case it returns
\* the result and raises nothing.
C1_WaitRaisesOnFailureOnly ==
    /\ \A i \in CompletingWaits :
          /\ log[SpanEnd(i)].rc = ReturnCode(log[i].id)
          /\ log[SpanEnd(i)].msg =
                IF log[i].flag /\ ReturnCode(log[i].id) # 0
                THEN "ProcessError" ELSE "return"
    /\ last.op \in {"Process.wait", "Connection.run"} /\ last.outcome = "ProcessError"
          => /\ IsNone(last.result)
             /\ Get(last.error).rc = ReturnCode(procs[last.pid].id)
             /\ Get(last.error).rc # 0
             /\ Get(last.error).id = procs[last.pid].id
             /\ Get(last.error).command = procs[last.pid].command
    /\ last.op \in {"Process.wait", "Connection.run"} /\ last.outcome = "return"
          => /\ IsNone(last.error)
             /\ Get(last.result).rc = ReturnCode(procs[last.pid].id)
             /\ Get(Get(last.result).error).rc = Get(last.result).rc

\* a wait(raise_on_error=True) has raised the error of a command that exited 3
C1_Witness ==
    /\ last.op = "Process.wait"
    /\ last.outcome = "ProcessError"
    /\ Get(last.error).rc = 3
    /\ procs[last.pid].chan = "completed"

\* C2: wait() on a process that run() has not started fails with a
\* RuntimeError: _wait is not called, nothing is logged, no result is
\* produced, and the process stays in the created state.
C2_WaitBeforeRunIsRejected ==
    /\ \A i \in CallsOf("Process.wait") :
          ~StartedBefore(log[i].id, i)
             => /\ IsRet(i + 1, "Process.wait")
                /\ log[i + 1].msg = "RuntimeError"
    /\ \A n \in 1..Len(procs) :
          ~StartedBefore(procs[n].id, Len(log) + 1)
             => /\ procs[n].chan = "created"
                /\ ~CompletedBefore(procs[n].id, Len(log) + 1)
    /\ last.op = "Process.wait" /\ ~StartedBefore(procs[last.pid].id, Len(log) + 1)
          => last.outcome = "RuntimeError" /\ IsNone(last.result) /\ IsNone(last.error)

\* wait() was called on a process that was created and never started
C2_Witness ==
    /\ last.op = "Process.wait"
    /\ last.outcome = "RuntimeError"
    /\ procs[last.pid].chan = "created"
    /\ ~StartedBefore(procs[last.pid].id, Len(log) + 1)

\* C3: for any sequence of run() and wait() calls on one process, the command
\* is dispatched to the transport at most once and at most one result is
\* produced, so that the process is started once and completed once.
C3_DispatchedAndCompletedOnce ==
    \A n \in 1..Len(procs) :
        /\ Cardinality({i \in CallsOf("_run") : log[i].id = procs[n].id}) <= 1
        /\ Cardinality({i \in CallsOf("_wait") : log[i].id = procs[n].id}) <= 1

\* C4: every Connection.run(command) with a string command calls connect(),
\* create_process(blocking_call=True), Process.run() and
\* Process.wait(raise_on_error), each once and in this order, retries nothing
\* whatever the return code, and ends, as wait() ended, right after wait().
C4_RunIsConnectCreateRunWait ==
    \A i \in CallsOf("Connection.run") :
        /\ CallOpsIn(i) = <<"connect", "create_process", "Process.run", "_run",
                            "Process.wait", "_wait">>
        /\ \A j \in Inside(i) :
              /\ IsCall(j, "create_process")
                    => /\ log[j].flag = TRUE
                       /\ log[j].lvl = log[i].lvl
                       /\ log[j].id = log[SpanEnd(i)].id
              /\ IsCall(j, "Process.run") \/ IsCall(j, "Process.wait")
                    => log[j].id = log[SpanEnd(i)].id
              /\ IsCall(j, "Process.wait") => log[j].flag = log[i].flag
        /\ IsRet(SpanEnd(i) - 1, "Process.wait")
        /\ log[SpanEnd(i)].msg = log[SpanEnd(i) - 1].msg

\* Connection.run() has returned the result of a command that exited 3
C4_Witness ==
    /\ last.op = "Connection.run"
    /\ last.outcome = "return"
    /\ Get(last.result).rc = 3
    /\ procs[last.pid].blocking_call

\* C5: Connection.async_run(command) calls connect(), create_process(
\* blocking_call=False) and Process.run(), never wait(), and returns that
\* process started and not completed: no result, no completion record and no
\* error before a later wait().
C5_AsyncRunStartsAndReturns ==
    /\ \A i \in CallsOf("Connection.async_run") :
          /\ CallOpsIn(i) = <<"connect", "create_process", "Process.run", "_run">>
          /\ \A j \in Inside(i) :
                /\ IsCall(j, "create_process")
                      => /\ log[j].flag = FALSE
                         /\ log[j].lvl = log[i].lvl
                         /\ log[j].id = log[SpanEnd(i)].id
                /\ IsCall(j, "Process.run") => log[j].id = log[SpanEnd(i)].id
                /\ log[j].k = "log" => log[j].msg = "Executing command"
          /\ log[SpanEnd(i)].msg = "return"
          /\ \A j \in CallsOf("_wait") :
                log[j].id = log[SpanEnd(i)].id
                   => j > SpanEnd(i) /\ IsCall(j - 1, "Process.wait")
    /\ last.op = "Connection.async_run"
          => /\ procs[last.pid].chan = "running"
             /\ ~procs[last.pid].blocking_call
             /\ IsNone(last.result)
             /\ IsNone(last.error)

\* async_run() has returned a running process
C5_Witness ==
    /\ last.op = "Connection.async_run"
    /\ procs[last.pid].chan = "running"
    /\ ~CompletedBefore(procs[last.pid].id, Len(log) + 1)

\* C6: process ids are unique and strictly increasing in the order in which
\* the constructors draw them, also when several threads construct processes
\* at the same time, and the counter is never reset.
C6_IdsUniqueAndIncreasing ==
    /\ \A i, j \in CallsOf("Process.__init__") : i < j => log[i].id < log[j].id
    /\ \A m, n \in 1..Len(procs) : m # n => procs[m].id # procs[n].id
    /\ \A t \in Threads :
          ~IsNone(pending[t])
             => /\ \A n \in 1..Len(procs) : procs[n].id # Get(pending[t]).g + 1
                /\ \A u \in Threads \ {t} :
                      ~IsNone(pending[u]) => Get(pending[u]).g # Get(pending[t]).g
    /\ genid = Cardinality(CallsOf("Process.__init__"))

\* two threads built processes at the same time: the one that drew the
\* later id finished first
C6_Witness ==
    /\ Len(procs) >= 2
    /\ procs[1].id > procs[2].id

\* C7 as stated: whenever wait() completes a process with a non-zero return
\* code, exactly one error record with the execution context and the output
\* is logged, whatever the log level and the blocking mode.
C7_ErrorRecordOnEveryFailure ==
    \A i \in CompletingWaits :
        ReturnCode(log[i].id) # 0
           => /\ Cardinality(LevelRecordsIn(i, "error")) = 1
              /\ \A j \in LevelRecordsIn(i, "error") :
                    HasContext(j, ProcOf(log[i].id)) /\ HasOutput(j, log[i].id)

\* C7: whenever wait() completes a process with a non-zero return code and
\* the effective log level is Error, exactly one error record with the
\* execution context and the output is logged, whatever the blocking mode;
\* with level Silent, Short or Full, or return code zero, wait() logs no
\* error record.
C7_ErrorRecordAtLevelError ==
    \A i \in CompletingWaits :
        /\ Cardinality(LevelRecordsIn(i, "error")) =
              IF ProcOf(log[i].id).log_level = Error /\ ReturnCode(log[i].id) # 0
              THEN 1 ELSE 0
        /\ \A j \in LevelRecordsIn(i, "error") :
              /\ log[j].msg = "Command completed"
              /\ log[j].id = log[i].id
              /\ log[j].rc = ReturnCode(log[i].id)
              /\ DOMAIN log[j].data = ContextKeys \cup OutputKeys
              /\ HasContext(j, ProcOf(log[i].id))
              /\ HasOutput(j, log[i].id)

\* a blocking process of level Error exited 3 and wait() logged the error record
C7_Witness ==
    \E i \in CompletingWaits :
        /\ ProcOf(log[i].id).log_level = Error
        /\ ProcOf(log[i].id).blocking_call
        /\ ReturnCode(log[i].id) = 3
        /\ LevelRecordsIn(i, "error") # {}

\* C8: each call of Process.run() logs one informational "Executing command
\* #id" record with shell, command, input, cwd and env if the effective log
\* level is Short or Full and none if it is Silent or Error, and logs it
\* before the command is dispatched to the transport.
C8_ExecutingRecordBeforeDispatch ==
    \A i \in CallsOf("Process.run") :
        /\ Cardinality(RecordsIn(i)) =
              IF ProcOf(log[i].id).log_level \in {Short, Full} THEN 1 ELSE 0
        /\ Cardinality({d \in Inside(i) : IsCall(d, "_run")}) = 1
        /\ \A j \in RecordsIn(i) :
              /\ log[j].op = "info"
              /\ log[j].msg = "Executing command"
              /\ log[j].id = log[i].id
              /\ DOMAIN log[j].data = ContextKeys
              /\ HasContext(j, ProcOf(log[i].id))
              /\ \A d \in Inside(i) : IsCall(d, "_run") => j < d

\* run() logged the record of a Short or Full process and then dispatched it
C8_Witness ==
    \E i \in CallsOf("Process.run") :
        /\ log[i + 1].k = "log"
        /\ IsCall(i + 2, "_run")
        /\ ProcOf(log[i].id).log_level = Short

\* C9: the informational record of wait() is, for a blocking process, one
\* record with the return code only at level Short and the same with stdout
\* and stderr at level Full; for a non-blocking process, one record with the
\* process id, the execution context and the return code at level Short and
\* the same with stdout and stderr at level Full; none at Silent and Error.
C9_InfoRecordByModeAndLevel ==
    \A i \in CompletingWaits :
        LET p == ProcOf(log[i].id)
            info == LevelRecordsIn(i, "info")
        IN  /\ Cardinality(info) = IF p.log_level \in {Short, Full} THEN 1 ELSE 0
            /\ \A j \in info :
                  /\ log[j].rc = ReturnCode(p.id)
                  /\ p.blocking_call
                        => /\ log[j].msg = "Previous command completed"
                           /\ log[j].id = 0
                           /\ p.log_level = Short => DOMAIN log[j].data = {}
                           /\ p.log_level = Full
                                 => /\ DOMAIN log[j].data = OutputKeys
                                    /\ HasOutput(j, p.id)
                  /\ ~p.blocking_call
                        => /\ log[j].msg = "Command completed"
                           /\ log[j].id = p.id
                           /\ HasContext(j, p)
                           /\ p.log_level = Short => DOMAIN log[j].data = ContextKeys
                           /\ p.log_level = Full
                                 => /\ DOMAIN log[j].data = ContextKeys \cup OutputKeys
                                    /\ HasOutput(j, p.id)

\* wait() completed a non-blocking process of level Full and logged its record
C9_Witness ==
    \E i \in CompletingWaits :
        /\ ~ProcOf(log[i].id).blocking_call
        /\ ProcOf(log[i].id).log_level = Full
        /\ \E j \in LevelRecordsIn(i, "info") : HasOutput(j, log[i].id)

\* the values of MH_CONNECTION_DEBUG that are "true", "yes" or "1" in some
\* letter case
DebugOn ==
    {Some(<<"t","r","u","e">>), Some(<<"T","R","U","E">>), Some(<<"T","r","u","e">>),
     Some(<<"t","R","u","E">>),
     Some(<<"y","e","s">>), Some(<<"Y","E","S">>), Some(<<"Y","e","s">>),
     Some(<<"1">>)}

\* C10: a process created while MH_CONNECTION_DEBUG is "true", "yes" or "1"
\* in any letter case has effective log level Full whatever level was
\* requested; with any other value, or with the variable unset, its
\* effective level is the requested one.
C10_DebugForcesFull ==
    \A n \in 1..Len(procs) :
        procs[n].log_level =
            IF procs[n].debug \in DebugOn THEN Full ELSE procs[n].requested

\* a process requested Silent was created under MH_CONNECTION_DEBUG=YES
C10_Witness ==
    \E n \in 1..Len(procs) :
        /\ procs[n].debug = Some(<<"Y","E","S">>)
        /\ procs[n].requested = Silent
        /\ procs[n].log_level = Full


\* the calls of throw() in the log
ThrowCalls == {i \in LogIdx : log[i].op = "ProcessResult.throw"}

\* what the error of a result says
ErrorContent(e) ==
    <<e.id, e.command, e.rc, e.cwd, e.env, e.input, e.stdout, e.stderr>>

\* C11: every result Connection.run() returns carries the error captured for
\* its process, whatever the return code and raise_on_error; throw() raises
\* the error of the result whenever the result has one, also when the return
\* code is 0, and raises ValueError only when the result has none.
C11_ThrowRaisesTheRetainedError ==
    /\ \A i \in ThrowCalls :
          /\ ~IsNone(log[i].data.before.error)
                => /\ log[i].msg = "ProcessError"
                   /\ log[i].data.raised = log[i].data.before.error
          /\ IsNone(log[i].data.before.error)
                => /\ log[i].msg = "ValueError"
                   /\ IsNone(log[i].data.raised)
    /\ last.op = "Connection.run" /\ last.outcome = "return"
          => /\ ~IsNone(Get(last.result).error)
             /\ ErrorContent(Get(Get(last.result).error)) =
                   <<procs[last.pid].id, procs[last.pid].command,
                     ReturnCode(procs[last.pid].id), procs[last.pid].cwd,
                     procs[last.pid].env, procs[last.pid].input,
                     Stdout(procs[last.pid].id), Stderr(procs[last.pid].id)>>

\* throw() raised the error of a result whose return code is 0
C11_Witness ==
    \E i \in ThrowCalls :
        /\ log[i].rc = 0
        /\ log[i].msg = "ProcessError"
        /\ Get(log[i].data.raised).rc = 0

\* C12: two calls of throw() on one result raise the same kind of exception
\* and, if it is the error of the result, errors of equal content (id,
\* command, rc, cwd, env, input, stdout, stderr); no call changes a field of
\* the result.
C12_ThrowIsIdempotent ==
    /\ \A i \in ThrowCalls : log[i].data.after = log[i].data.before
    /\ \A i, j \in ThrowCalls :
          /\ log[j].data.before = log[i].data.before
          /\ log[j].msg = log[i].msg
          /\ log[i].msg = "ProcessError"
                => ErrorContent(Get(log[j].data.raised)) =
                      ErrorContent(Get(log[i].data.raised))
    /\ \A i \in ThrowCalls : last.result = Some(log[i].data.after)

\* throw() was called twice on a result that has an error
C12_Witness ==
    \E i, j \in ThrowCalls :
        /\ i < j
        /\ log[i].msg = "ProcessError"
        /\ log[j].msg = "ProcessError"

\* text is the lines joined with one newline between two of them
RECURSIVE IsNewlineJoin(_, _)
IsNewlineJoin(text, lines) ==
    IF lines = <<>> THEN text = <<>>
    ELSE IF Len(lines) = 1 THEN text = lines[1]
    ELSE /\ Len(text) > Len(lines[1])
         /\ SubSeq(text, 1, Len(lines[1])) = lines[1]
         /\ text[Len(lines[1]) + 1] = NL
         /\ IsNewlineJoin(SubSeq(text, Len(lines[1]) + 2, Len(text)), Tail(lines))

Joined(result) ==
    /\ IsNewlineJoin(result.stdout, result.stdout_lines)
    /\ IsNewlineJoin(result.stderr, result.stderr_lines)

\* C13: stdout of a result is its stdout_lines joined with newlines, in
\* order, and stderr is its stderr_lines joined likewise, when the result is
\* built and after every call made on it.
C13_OutputIsJoinedLines ==
    /\ ~IsNone(last.result) => Joined(Get(last.result))
    /\ \A i \in ThrowCalls : Joined(log[i].data.before) /\ Joined(log[i].data.after)

\* throw() was called on a result with three lines of output
C13_Witness ==
    /\ last.op = "ProcessResult.throw"
    /\ Len(Get(last.result).stdout_lines) = 3
    /\ Len(Get(last.result).stderr_lines) = 2
    /\ Get(last.result).stdout # Get(last.result).stdout_lines[1]


----------------------------------------------------------------------------
\* Reading a command line as a POSIX shell does.

\* characters that are operators or start an expansion when not quoted
ActiveChars ==
    {"|", "&", ";", "<", ">", "(", ")", "$", "*", "?", "[", "#", "~", "!",
     "{", "}"}

\* what stands in a word for a character the shell would act upon
Active == "ACTIVE"
\* the reading of a text that ends inside a quotation
Unterminated == << << <<"UNTERMINATED">> >> >>

CloseWord(cur, open, words) == IF open THEN Append(words, cur) ELSE words
CloseCommand(cmds, words) == IF words = <<>> THEN cmds ELSE Append(cmds, words)

\* the reader before the first character: outside any quotation, no word begun
ShellStart ==
    [mode |-> "plain", cur |-> <<>>, open |-> FALSE, words |-> <<>>, cmds |-> <<>>]

AddChar(st, mode, c) == [st EXCEPT !.mode = mode, !.cur = Append(@, c), !.open = TRUE]

\* the reader after one more character c: blanks separate words and newlines
\* separate commands unless quoted; between single quotes every character is
\* literal; between double quotes a backslash quotes $ " \ and newline;
\* elsewhere a backslash quotes the next character.  The backquote is not in
\* the alphabet of the inputs.
ShellStep(st, c) ==
    CASE st.mode = "single" ->
            IF c = "'" THEN [st EXCEPT !.mode = "plain"] ELSE AddChar(st, "single", c)
      [] st.mode = "double" ->
            IF c = "\"" THEN [st EXCEPT !.mode = "plain"]
            ELSE IF c = "\\" THEN [st EXCEPT !.mode = "double_esc"]
            ELSE IF c = "$" THEN AddChar(st, "double", Active)
            ELSE AddChar(st, "double", c)
      [] st.mode = "double_esc" ->
            IF c \in {"$", "\"", "\\"} THEN AddChar(st, "double", c)
            ELSE IF c = NL THEN [st EXCEPT !.mode = "double"]
            ELSE AddChar(AddChar(st, "double", "\\"), "double", c)
      [] st.mode = "plain_esc" ->
            IF c = NL THEN [st EXCEPT !.mode = "plain"] ELSE AddChar(st, "plain", c)
      [] c \in {" ", TAB} ->
            [st EXCEPT !.cur = <<>>, !.open = FALSE,
                       !.words = CloseWord(st.cur, st.open, st.words)]
      [] c = NL ->
            [st EXCEPT !.cur = <<>>, !.open = FALSE, !.words = <<>>,
                       !.cmds = CloseCommand(st.cmds,
                                             CloseWord(st.cur, st.open, st.words))]
      [] c = "'" -> [st EXCEPT !.mode = "single", !.open = TRUE]
      [] c = "\"" -> [st EXCEPT !.mode = "double", !.open = TRUE]
      [] c = "\\" -> [st EXCEPT !.mode = "plain_esc"]
      [] c \in ActiveChars -> AddChar(st, "plain", Active)
      [] OTHER -> AddChar(st, "plain", c)

\* the reader after the characters lo..hi of s; the left half is read first
RECURSIVE ShellFold(_, _, _, _)
ShellFold(s, lo, hi, st) ==
    IF lo = hi THEN ShellStep(st, s[lo])
    ELSE LET left == ShellFold(s, lo, (lo + hi) \div 2, st)
         IN  IF left.open \in BOOLEAN
             THEN ShellFold(s, ((lo + hi) \div 2) + 1, hi, left)
             ELSE left

\* the commands read when the text ends
ShellFinish(st) ==
    IF st.mode \in {"single", "double", "double_esc"} THEN Unterminated
    ELSE IF st.mode = "plain_esc"
    THEN CloseCommand(st.cmds, Append(st.words, Append(st.cur, "\\")))
    ELSE CloseCommand(st.cmds, CloseWord(st.cur, st.open, st.words))

\* the commands of a text, each the sequence of its words after quote removal
ShellCommands(text) ==
    IF text = <<>> THEN <<>>
    ELSE ShellFinish(ShellFold(text, 1, Len(text), ShellStart))

\* text is one command, or nothing, of exactly these words
SplitsInto(text, words) ==
    ShellCommands(text) = IF words = <<>> THEN <<>> ELSE <<words>>

----------------------------------------------------------------------------

\* a step is a call that raised ValueError(message) and did nothing else:
\* not connected, no process created or started, no id drawn, nothing logged
UsageErrorStep(op, message) ==
    /\ last'.op = op
    /\ last'.outcome = "ValueError"
    /\ last'.error = Some([message |-> message])
    /\ IsNone(last'.result)
    /\ connected' = connected
    /\ genid' = genid
    /\ procs' = procs
    /\ Len(log') = Len(log) + 2
    /\ SubSeq(log', 1, Len(log)) = log
    /\ log'[Len(log) + 1].k = "call" /\ log'[Len(log) + 1].op = op
    /\ log'[Len(log) + 2].k = "ret" /\ log'[Len(log) + 2].op = op
    /\ log'[Len(log) + 2].msg = "ValueError"

\* C14: run() and async_run() called with a command that is not a string, and
\* exec() and async_exec() called with an argv that is not a list, raise
\* ValueError at once, with a message about the command for the former two
\* and another about argv for the latter two: connect() is not called, no
\* process is created or started, no id is drawn and nothing is logged.
C14_UsageErrorBeforeAnyEffect ==
    [][/\ \A command \in CallCommands, b \in BOOLEAN :
             ~IsInstance(command, "str") /\ CallRun(command, b)
                => UsageErrorStep("Connection.run",
                      "Parameter command is not a string, did you mean exec() instead of run()?")
       /\ \A command \in CallCommands :
             ~IsInstance(command, "str") /\ CallAsyncRun(command)
                => UsageErrorStep("Connection.async_run",
                      "Parameter command is not a string, did you mean async_exec() instead of async_run()?")
       /\ \A argv \in CallArgvs, b \in BOOLEAN :
             ~IsInstance(argv, "list") /\ CallExec(argv, b)
                => UsageErrorStep("Connection.exec",
                      "Parameter argv is not a list, did you mean run() instead of exec()?")
       /\ \A argv \in CallArgvs :
             ~IsInstance(argv, "list") /\ CallAsyncExec(argv)
                => UsageErrorStep("Connection.async_exec",
                      "Parameter argv is not a list, did you mean async_run() instead of async_exec()?")
      ]_vars

\* exec() was refused a string, and the process created by the next call has
\* id 1
C14_Witness ==
    /\ Len(log) > 2
    /\ IsCall(1, "Connection.exec")
    /\ IsRet(2, "Connection.exec")
    /\ log[2].msg = "ValueError"
    /\ Len(procs) = 1
    /\ procs[1].id = 1
    /\ connected

\* the calls of exec() and async_exec() that were given a list
ExecCalls ==
    {i \in CallsOf("Connection.exec") \cup CallsOf("Connection.async_exec") :
        ~IsRet(i + 1, log[i].op)}

ExpectCalls ==
    CallsOf("Connection.expect") \cup CallsOf("Connection.expect_nobody")

ExpectCommandWords(i) ==
    IF log[i].op = "Connection.expect"
    THEN {<< <<"/","b","i","n","/","e","x","p","e","c","t">> >>,
          << <<"/","b","i","n","/","e","x","p","e","c","t">>, <<"-","d">> >>}
    ELSE {<< <<"s","u">>, <<"-","-","s","h","e","l","l">>, <<"/","b","i","n","/","s","h">>,
             <<"n","o","b","o","d","y">>, <<"-","c">>,
             <<"/","b","i","n","/","e","x","p","e","c","t">> >>,
          << <<"s","u">>, <<"-","-","s","h","e","l","l">>, <<"/","b","i","n","/","s","h">>,
             <<"n","o","b","o","d","y">>, <<"-","c">>,
             <<"/","b","i","n","/","e","x","p","e","c","t"," ","-","d">> >>}

\* C16: expect() and expect_nobody() run one blocking process with the script
\* as its input; called without raise_on_error, or with raise_on_error false,
\* they return the result with the return code of the process, zero or not,
\* and with raise_on_error true they raise its error if the code is not zero.
\* The command of expect_nobody() is su for user nobody with the interpreter
\* as its -c argument; the command of expect() is the interpreter.
C16_ExpectReturnsUnlessAsked ==
    /\ \A i \in ExpectCalls :
          /\ ProcOf(log[SpanEnd(i)].id).input = Some(ExpectScript)
          /\ ProcOf(log[SpanEnd(i)].id).blocking_call
          /\ \E words \in ExpectCommandWords(i) :
                SplitsInto(ProcOf(log[SpanEnd(i)].id).command, words)
          /\ log[SpanEnd(i)].msg =
                IF log[i].data.given = Some(TRUE) /\ ReturnCode(log[SpanEnd(i)].id) # 0
                THEN "ProcessError" ELSE "return"
          /\ Cardinality({j \in Inside(i) : IsCall(j, "create_process")}) = 1
    /\ last.op \in {"Connection.expect", "Connection.expect_nobody"}
       /\ last.outcome = "return"
          => Get(last.result).rc = ReturnCode(procs[last.pid].id)

\* expect_nobody() called without raise_on_error returned a result with
\* return code 3
C16_Witness ==
    /\ last.op = "Connection.expect_nobody"
    /\ last.outcome = "return"
    /\ Get(last.result).rc = 3
    /\ \E i \in ExpectCalls : IsNone(log[i].data.given)
    /\ Len(log) = Len(SubSeq(log, 1, SpanEnd(1)))


\* the statements of the body that have been run
BodyCalls ==
    CallsOf("Connection.run") \cup CallsOf("Connection.exec") \cup CallsOf("statement")

\* C17: in "with conn: body", connect() is called before any statement of the
\* body; when the with statement has ended, whether the body ended or raised
\* a ProcessError, a ValueError or an exception of its own, disconnect() has
\* been called exactly once, by __exit__ and after the last statement of the
\* body, the connection is disconnected, and the with statement raises the
\* exception of the body, after the disconnect.
C17_ScopeConnectsAndDisconnects ==
    /\ \A j \in BodyCalls \cup CallsOf("Connection.__exit__") :
          /\ IsCall(1, "Connection.__enter__")
          /\ IsCall(2, "connect")
          /\ IsRet(3, "Connection.__enter__")
          /\ j > 3
    /\ BodyCalls # {} /\ CallsOf("Connection.__exit__") = {} => connected
    /\ last.op = "with"
          => /\ Cardinality(CallsOf("disconnect")) = 1
             /\ Cardinality(CallsOf("Connection.__exit__")) = 1
             /\ \A x \in CallsOf("Connection.__exit__") :
                   /\ IsCall(x + 1, "disconnect")
                   /\ IsRet(x + 2, "Connection.__exit__")
                   /\ IsRet(x + 3, "with")
                   /\ x + 3 = Len(log)
                   /\ \A j \in BodyCalls : SpanEnd(j) < x
                   /\ log[x - 1].k = "ret"
                   /\ log[x].data.exception_type =
                         IF log[x - 1].msg = "return" THEN None
                         ELSE Some(log[x - 1].msg)
                   /\ log[x + 3].msg = log[x - 1].msg
                   /\ last.outcome = log[x - 1].msg
             /\ ~connected

\* the body ran a command that failed, and the with statement raised its
\* ProcessError after the disconnect
C17_Witness ==
    /\ last.op = "with"
    /\ last.outcome = "ProcessError"
    /\ Get(last.error).rc = 3
    /\ ~connected
    /\ CallsOf("_wait") # {}


----------------------------------------------------------------------------
\* The command lines of the shells.

StartsWith(s, p) == Len(s) >= Len(p) /\ SubSeq(s, 1, Len(p)) = p
Drop(s, n) == SubSeq(s, n + 1, Len(s))

\* the beginnings of the statements expected for env and cwd, in order
StatementHeads(shell, env, cwd) ==
    [i \in 1..Len(env) |->
        IF shell = "bash"
        THEN <<"e","x","p","o","r","t"," ">> \o env[i][1] \o <<"=">>
        ELSE <<"$","E","n","v",":">> \o env[i][1] \o <<" ","="," ">>]
    \o (IF IsNone(cwd) THEN <<>> ELSE << <<"c","d"," ">> >>)

\* text is one statement for each head, each beginning with its head and
\* ending with a newline, then an empty line, then the script
RECURSIVE HasStatements(_, _, _)
HasStatements(text, heads, script) ==
    IF heads = <<>> THEN text = <<NL>> \o script
    ELSE /\ StartsWith(text, heads[1])
         /\ \E k \in (Len(heads[1]) + 1)..Len(text) :
               text[k] = NL /\ HasStatements(Drop(text, k), Tail(heads), script)

\* the index of the quote that ends the single-quoted Powershell literal
\* whose characters begin at s[i]; two quotes in a row are one literal quote;
\* 0 if the literal does not end
RECURSIVE PsLiteralEnd(_, _)
PsLiteralEnd(s, i) ==
    IF i > Len(s) THEN 0
    ELSE IF s[i] # "'" THEN PsLiteralEnd(s, i + 1)
    ELSE IF i < Len(s) /\ s[i + 1] = "'" THEN PsLiteralEnd(s, i + 2)
    ELSE i

\* the characters of a literal, between the quotes, as the text they denote
RECURSIVE Undoubled(_)
Undoubled(s) ==
    IF s = <<>> THEN <<>>
    ELSE IF Head(s) = "'" THEN <<"'">> \o Undoubled(Tail(Tail(s)))
    ELSE <<Head(s)>> \o Undoubled(Tail(s))

\* s begins with a single-quoted Powershell literal: its value, and the text
\* after it
PsLiteral(s) ==
    IF s # <<>> /\ Head(s) = "'" /\ PsLiteralEnd(s, 2) > 0
    THEN [ok |-> TRUE,
          value |-> Undoubled(SubSeq(s, 2, PsLiteralEnd(s, 2) - 1)),
          rest |-> Drop(s, PsLiteralEnd(s, 2))]
    ELSE [ok |-> FALSE, value |-> <<>>, rest |-> s]

\* the command line a shell has built, if the last call built one
Built(shell) ==
    IF last.op = "build_command_line" /\ Get(last.result).shell = shell
    THEN {Get(last.result)} ELSE {}

BashWords(argument) ==
    <<<<"/","u","s","r","/","b","i","n","/","b","a","s","h">>, <<"-","c">>, argument>>

ExpectedCommands(env, cwd) ==
    [i \in 1..Len(env) |->
        <<<<"e","x","p","o","r","t">>, env[i][1] \o <<"=">> \o Str(env[i][2])>>]
    \o (IF IsNone(cwd) THEN <<>> ELSE << <<<<"c","d">>, Get(cwd)>> >>)

\* C19: read by the quoting rules of the POSIX shell, the command line Bash
\* builds is the launcher and exactly one argument; read by the same rules,
\* that argument is, for each entry of env, the command export NAME=value
\* with exactly the string of the value, then the command cd with exactly
\* the path, then the commands of the script and no other, for values and
\* paths with single quotes, double quotes, blanks, newlines and $( ) ; in
\* them.
C19_BashQuotesValues ==
    \A r \in Built("bash") :
        /\ SplitsInto(r.command_line, BashWords(r.full_script))
        /\ ShellCommands(r.full_script) =
              ExpectedCommands(r.env, r.cwd) \o ShellCommands(r.script)

\* a Bash command line was built for a value with double quotes, a newline
\* and $( ), and a path with a single quote, a newline and double quotes
C19_Witness ==
    \E r \in Built("bash") :
        /\ r.cwd = Some(<<"i","t","'","s",NL,"\"","q","\"">>)
        /\ Len(r.env) = 1
        /\ Str(r.env[1][2]) = <<"a"," ","\"","b","\"",NL,"$","(","c",")">>

\* s begins with one token of Powershell that denotes a string: a
\* single-quoted literal, or, up to the end of the line, an unquoted number
\* where an expression is read (the right side of an assignment) or an
\* unquoted word of letters, digits and / . _ - where an argument of a
\* command is read; any other unquoted text is syntax of the shell
PsToken(s, argument) ==
    IF PsLiteral(s).ok THEN PsLiteral(s)
    ELSE IF \E k \in 2..Len(s) :
               /\ s[k] = NL
               /\ \A j \in 1..(k - 1) :
                     \/ s[j] \in {DigitChars[d] : d \in 1..Len(DigitChars)}
                     \/ s[j] = "-" /\ j = 1 /\ k > 2
                     \/ argument /\ s[j] \in ShlexSafeChars \ {"@", "%", "+", "=", ":", ","}
    THEN [ok |-> TRUE,
          value |-> SubSeq(s, 1, (CHOOSE k \in 2..Len(s) :
                                     s[k] = NL /\ \A j \in 1..(k - 1) : s[j] # NL) - 1),
          rest |-> Drop(s, (CHOOSE k \in 2..Len(s) :
                               s[k] = NL /\ \A j \in 1..(k - 1) : s[j] # NL) - 1)]
    ELSE [ok |-> FALSE, value |-> <<>>, rest |-> s]

\* text begins with, for each item, its head, one token that denotes exactly
\* its value, and a newline
RECURSIVE PsAssignsTokens(_, _)
PsAssignsTokens(text, items) ==
    IF items = <<>> THEN TRUE
    ELSE /\ StartsWith(text, items[1].head)
         /\ PsToken(Drop(text, Len(items[1].head)), items[1].argument).ok
         /\ PsToken(Drop(text, Len(items[1].head)), items[1].argument).value
               = items[1].value
         /\ StartsWith(PsToken(Drop(text, Len(items[1].head)), items[1].argument).rest,
                       <<NL>>)
         /\ PsAssignsTokens(
                Drop(PsToken(Drop(text, Len(items[1].head)), items[1].argument).rest, 1),
                Tail(items))

\* C20: the script Powershell builds begins with, for each entry of env, the
\* statement "$Env:NAME = " followed by one token of Powershell that denotes
\* exactly the string of the value (a single-quoted literal in which a single
\* quote of the value is doubled), and then, if cwd is given, "cd " followed
\* by one such token for the path, so that no value ends its token early.
C20_PowershellQuotesValues ==
    \A r \in Built("powershell") :
        PsAssignsTokens(
            r.full_script,
            [i \in 1..Len(r.env) |->
                [head |-> <<"$","E","n","v",":">> \o r.env[i][1] \o <<" ","="," ">>,
                 value |-> Str(r.env[i][2]), argument |-> FALSE]]
            \o (IF IsNone(r.cwd) THEN <<>>
                ELSE <<[head |-> <<"c","d"," ">>, value |-> Get(r.cwd),
                        argument |-> TRUE]>>))


\* the calls of the stream operations: stdin, send_eof(), send_signal()
StreamOps == {"Process.stdin", "Process.send_eof", "Process.send_signal"}
StreamCalls == {i \in LogIdx : log[i].k = "call" /\ log[i].op \in StreamOps}

\* C21: stdin, send_eof() and send_signal() on a process that run() has not
\* started each fail with a RuntimeError and leave the process created, with
\* its standard input untouched; each of them succeeds exactly on a process
\* that was started and that wait() has not completed.
C21_StreamsNeedRunningProcess ==
    /\ \A i \in StreamCalls :
          /\ IsRet(i + 1, log[i].op)
          /\ log[i + 1].msg =
                IF StartedBefore(log[i].id, i) /\ ~CompletedBefore(log[i].id, i)
                THEN "return" ELSE "RuntimeError"
    /\ \A n \in 1..Len(procs) :
          ~StartedBefore(procs[n].id, Len(log) + 1)
             => procs[n].chan = "created" /\ procs[n].stdin = "open"
    /\ last.op \in StreamOps /\ ~StartedBefore(procs[last.pid].id, Len(log) + 1)
          => last.outcome = "RuntimeError"

\* stdin, send_eof() and send_signal() were each called on a process that
\* was created and never started
C21_Witness ==
    /\ \A op \in StreamOps :
          \E i \in StreamCalls : log[i].op = op /\ log[i + 1].msg = "RuntimeError"
    /\ last.op \in StreamOps
    /\ last.outcome = "RuntimeError"
    /\ procs[last.pid].chan = "created"
    /\ \A j \in LogIdx : ~IsCall(j, "_run")


\* the logger records made during the call at i, in order
RecordSeqIn(i) ==
    SelectSeq(SubSeq(log, i + 1, SpanEnd(i) - 1), LAMBDA e : e.k = "log")

\* the logger records wait(raise_on_error=False) makes on process id when it
\* is running
RecordsOfQuietWait(id) ==
    SelectSeq(ProcessWait(TransportRun(ProcOf(id)), FALSE).events,
              LAMBDA e : e.k = "log")

\* C22: when wait() completes a process with raise_on_error true and a
\* non-zero return code, it raises the ProcessError, and before it raises it
\* has logged exactly the records that wait(raise_on_error=False) logs for
\* the same process; the error reaches the caller of wait() and, through
\* Connection.run(), the caller of run().
C22_LoggedBeforeRaised ==
    /\ \A i \in CompletingWaits :
          log[i].flag /\ ReturnCode(log[i].id) # 0
             => /\ log[SpanEnd(i)].msg = "ProcessError"
                /\ RecordSeqIn(i) = RecordsOfQuietWait(log[i].id)
                /\ \A c \in CallsOf("Connection.run") :
                      i \in Inside(c) => log[SpanEnd(c)].msg = "ProcessError"
    /\ /\ last.op \in {"Process.wait", "Connection.run"}
       /\ \E i \in CompletingWaits :
             /\ log[i].flag /\ ReturnCode(log[i].id) # 0
             /\ SpanEnd(i) \in {Len(log), Len(log) - 1}
       => /\ last.outcome = "ProcessError"
          /\ ~IsNone(last.error)
          /\ Get(last.error).rc = ReturnCode(procs[last.pid].id)

\* Connection.run(raise_on_error=True) of a Full process that exited 3 has
\* raised, after wait() logged the completion record with the output
C22_Witness ==
    /\ last.op = "Connection.run"
    /\ last.outcome = "ProcessError"
    /\ procs[last.pid].log_level = Full
    /\ \E i \in CompletingWaits :
          /\ log[i].flag
          /\ \E j \in RecordsIn(i) : HasOutput(j, log[i].id)


\* the calls of run() and wait() on process id
LifeCalls(id) ==
    {i \in CallsOf("Process.run") \cup CallsOf("Process.wait") : log[i].id = id}

\* the logger records made during the calls of run() and wait() on process id
LifeRecords(id) ==
    {j \in LogIdx : log[j].k = "log" /\ \E i \in LifeCalls(id) : j \in Inside(i)}

\* process id was started once: created, run, and waited at most once
StartedOnce(id) == Cardinality({i \in CallsOf("_run") : log[i].id = id}) = 1

C27_AtMostOneRecordPerWait ==
    \A i \in CallsOf("Process.wait") :
        /\ Cardinality(RecordsIn(i)) <= 1
        /\ LevelRecordsIn(i, "error") = {} \/ LevelRecordsIn(i, "info") = {}
        /\ RecordsIn(i) = LevelRecordsIn(i, "error") \cup LevelRecordsIn(i, "info")

\* a blocking process of level Short exited 3 and wait(raise_on_error=True)
\* logged its one record, an informational one
C27_Witness ==
    \E i \in CompletingWaits :
        /\ log[i].flag
        /\ ProcOf(log[i].id).blocking_call
        /\ ProcOf(log[i].id).log_level = Short
        /\ ReturnCode(log[i].id) = 3
        /\ Cardinality(RecordsIn(i)) = 1
        /\ LevelRecordsIn(i, "error") = {}


\* C24: Process.__enter__ calls nothing: it neither starts nor waits the
\* process.  Process.__exit__ calls wait() on the process once, with
\* raise_on_error at its default True, whether the body ended or raised, and
\* ends as that wait() ends; a process that was started before the scope is
\* left is completed when the scope is left.
C24_ProcessScopeWaits ==
    /\ \A e \in CallsOf("Process.__enter__") :
          /\ IsRet(e + 1, "Process.__enter__")
          /\ log[e + 1].msg = "return"
    /\ \A x \in CallsOf("Process.__exit__") :
          /\ Cardinality({i \in Inside(x) : IsCall(i, "Process.wait")}) = 1
          /\ IsCall(x + 1, "Process.wait")
          /\ log[x + 1].id = log[x].id
          /\ log[x + 1].flag = TRUE
          /\ IsRet(SpanEnd(x) - 1, "Process.wait")
          /\ log[SpanEnd(x)].msg = log[SpanEnd(x) - 1].msg
          /\ StartedBefore(log[x].id, x)
                => /\ CompletedBefore(log[x].id, SpanEnd(x))
                   /\ ProcOf(log[x].id).chan = "completed"
    /\ last.op = "Process.__enter__"
          => \A j \in LogIdx : ~IsCall(j, "_wait") /\ ~IsCall(j, "Process.wait")

\* the body of "with conn.async_run(...) as process" raised, and __exit__
\* waited the process, which exited 3: the with statement ends with the
\* ProcessError and the process is completed
C24_Witness ==
    /\ last.op = "with"
    /\ last.outcome = "ProcessError"
    /\ procs[last.pid].chan = "completed"
    /\ ~procs[last.pid].blocking_call
    /\ \E x \in CallsOf("Process.__exit__") :
          /\ log[x].data.exc_info = Some("Exception")
          /\ IsCall(x + 2, "_wait")


\* the high-level calls of the Connection API
HighLevelOps ==
    {"Connection.run", "Connection.async_run", "Connection.exec",
     "Connection.async_exec", "Connection.expect", "Connection.expect_nobody"}

\* the high-level calls during which connect() raised
FailedConnects ==
    {i \in LogIdx :
        /\ log[i].k = "call" /\ log[i].op \in HighLevelOps
        /\ \E k \in Inside(i) : IsRet(k, "connect") /\ log[k].msg = "ConnectionError"}

\* C25: when connect() raises inside run, async_run, exec, async_exec, expect
\* or expect_nobody, the call ends with the ConnectionError, whatever
\* raise_on_error is, and not with a result or a ProcessError; during the
\* call no process is created, nothing is dispatched to the transport or
\* waited for, nothing is logged, and no process id is drawn.
C25_ConnectErrorBeforeAnyProcess ==
    /\ \A i \in FailedConnects :
          /\ log[SpanEnd(i)].msg = "ConnectionError"
          /\ \A j \in Inside(i) :
                /\ log[j].k # "log"
                /\ log[j].k = "call" => log[j].op \in HighLevelOps \cup {"connect"}
    /\ genid = Cardinality(CallsOf("create_process"))
    /\ Len(procs) = genid
    /\ last.outcome = "ConnectionError"
          => /\ IsNone(last.result)
             /\ ~IsNone(last.error)
             /\ Len(log) \in {SpanEnd(i) : i \in FailedConnects}

\* expect(raise_on_error=False) could not connect: the ConnectionError left
\* expect, exec and run, and no process exists
C25_Witness ==
    /\ last.op = "Connection.expect"
    /\ last.outcome = "ConnectionError"
    /\ procs = <<>>
    /\ genid = 0
    /\ \E i \in FailedConnects :
          /\ log[i].op = "Connection.expect"
          /\ log[i].flag = FALSE
          /\ \E j \in Inside(i) : IsCall(j, "Connection.run")


\* the calls of wait() that entered _wait and have returned or raised
EndedWaits ==
    {i \in CompletingWaits : \E j \in (i + 1)..Len(log) : IsRet(j, "Process.wait")}

\* C26: wait() on a running process closes its standard input before it
\* waits for the command to finish, whether or not send_eof() closed it
\* before: while the caller waits and after, the standard input is closed;
\* such a wait() never ends with a usage error, also after send_eof(); and
\* every wait() that has begun on a running process completes the process,
\* also one whose command finishes only at the end of its input.
C26_WaitClosesStdinAndCompletes ==
    /\ [](\A n \in 1..Len(procs) :
             procs[n].chan \in {"waiting", "completed"} => procs[n].stdin = "closed")
    /\ [](\A i \in EndedWaits :
             /\ log[SpanEnd(i)].msg \in {"return", "ProcessError"}
             /\ log[SpanEnd(i)].rc = ReturnCode(log[i].id))
    /\ \A n \in 1..MaxProcs :
          (Len(procs) >= n /\ procs[n].chan = "waiting")
             ~> (Len(procs) >= n /\ procs[n].chan = "completed")

\* cat was started and waited without send_eof(): wait() returned its result
\* with return code 0
C26_Witness ==
    /\ last.op = "Process.wait"
    /\ last.outcome = "return"
    /\ Get(last.result).rc = 0
    /\ procs[last.pid].command = CmdCat
    /\ procs[last.pid].chan = "completed"
    /\ \A j \in LogIdx : ~IsCall(j, "Process.send_eof")


\* the effective log level of process p as its creation fixed it: Full if
\* MH_CONNECTION_DEBUG was on when p was created, else the requested level
CreationLevel(p) == IF p.debug \in DebugOn THEN Full ELSE p.requested

\* C29: no step changes the id, the normalized command, the full command
\* line or the effective log level of a process that exists, whatever
\* run(), wait() or a change of MH_CONNECTION_DEBUG the step is; and the
\* records of every run() and of every wait() are those of the level the
\* creation fixed, whatever the variable is when run() or wait() is called.
C29_FixedAtCreation ==
    /\ [][\A n \in 1..Len(procs) :
             /\ procs'[n].id = procs[n].id
             /\ procs'[n].command = procs[n].command
             /\ procs'[n].full_command_line = procs[n].full_command_line
             /\ procs'[n].log_level = procs[n].log_level]_vars
    /\ [](\A n \in 1..Len(procs) : procs[n].log_level = CreationLevel(procs[n]))
    /\ [](\A i \in CallsOf("Process.run") :
             Cardinality(RecordsIn(i)) =
                IF CreationLevel(ProcOf(log[i].id)) \in {Short, Full} THEN 1 ELSE 0)
    /\ [](\A i \in CompletingWaits :
             /\ Cardinality(LevelRecordsIn(i, "info")) =
                   IF CreationLevel(ProcOf(log[i].id)) \in {Short, Full} THEN 1 ELSE 0
             /\ Cardinality(LevelRecordsIn(i, "error")) =
                   IF /\ CreationLevel(ProcOf(log[i].id)) = Error
                      /\ ReturnCode(log[i].id) # 0
                   THEN 1 ELSE 0
             /\ \A j \in RecordsIn(i) :
                   "Output" \in DOMAIN log[j].data
                      <=> CreationLevel(ProcOf(log[i].id)) \in {Full, Error})

\* a process requested Silent was created while the variable was unset; the
\* variable was then set to "yes", and the run() that followed logged nothing
C29_Witness ==
    \E i \in CallsOf("Process.run") :
        /\ ProcOf(log[i].id).requested = Silent
        /\ ProcOf(log[i].id).debug = None
        /\ IsCall(i - 1, "os.environ")
        /\ log[i - 1].data.value = Some(<<"y","e","s">>)
        /\ \E c \in 1..(i - 2) : IsCall(c, "create_process") /\ log[c].id = log[i].id
        /\ RecordsIn(i) = {}
        /\ ProcOf(log[i].id).log_level = Silent


\* the completion records without a process id: "Previous command completed"
PreviousRecords ==
    {j \in LogIdx : log[j].k = "log" /\ log[j].msg = "Previous command completed"}

\* the logger record made last before record j
RecordBefore(j) ==
    CHOOSE e \in 1..(j - 1) :
        log[e].k = "log" /\ \A m \in (e + 1)..(j - 1) : log[m].k # "log"

\* C28: the informational completion record of a blocking process carries no
\* process id, and for the processes of Connection.run() and
\* Connection.exec() made by one caller the record made last before it is
\* the "Executing command #id" record of that same process: no record of
\* another process lies between the two, also while processes started
\* earlier by async_run() are running and are waited later.
C28_PreviousIsTheLastExecuted ==
    /\ \A i \in CompletingWaits :
          ProcOf(log[i].id).blocking_call
             => \A j \in LevelRecordsIn(i, "info") :
                   /\ j \in PreviousRecords
                   /\ log[j].id = 0
                   /\ \E e \in 1..(j - 1) : log[e].k = "log"
                   /\ log[RecordBefore(j)].msg = "Executing command"
                   /\ log[RecordBefore(j)].id = log[i].id
    /\ \A j \in PreviousRecords :
          \E i \in CompletingWaits :
              j \in RecordsIn(i) /\ ProcOf(log[i].id).blocking_call

\* async_run() started a process of level Full, run() then ran a Short
\* process to completion and logged "Previous command completed", and the
\* first process was waited after that
C28_Witness ==
    /\ Len(procs) = 2
    /\ ~procs[1].blocking_call /\ procs[1].log_level = Full
    /\ procs[2].blocking_call /\ procs[2].log_level = Short
    /\ last.op = "Process.wait"
    /\ last.pid = 1
    /\ last.outcome = "return"
    /\ \E j \in PreviousRecords :
          /\ log[RecordBefore(j)].id = procs[2].id
          /\ \E e \in 1..(j - 1) :
                log[e].msg = "Executing command" /\ log[e].id = procs[1].id

====
